---- MODULE Spec2Model ----
(***************************************************************************)
(* Model of the request orchestrator of oarkflow/llm-agent (src/llm.go):   *)
(* Agent.Complete with its cache lookup, backend resolution, parameter     *)
(* defaulting, retry loop (tryProvider), fallback loop and CACHE_STORE     *)
(* epilogue, the per-provider metrics and the background cache sweeper.    *)
(***************************************************************************)
EXTENDS Integers, Sequences, FiniteSets, TLC

(***************************************************************************)
(* Bounds of the model.                                                    *)
(***************************************************************************)
MaxRetry == 2
MaxTime == 2
MaxLatency == 1

(***************************************************************************)
(* Program constants.                                                      *)
(***************************************************************************)
FallbackMaxTokens == 200

ProviderFallbackMaxTokens == 200

Names == {"alpha", "beta", "gamma"}
AllCallers == {"c1", "c2"}

NoName == ""
NoModel == ""

(***************************************************************************)
(* Values: errors, response elements, response channels.                   *)
(***************************************************************************)
NoErr == [kind |-> "nil", b |-> NoName, n |-> 0]
BackendErr(b, n) == [kind |-> "backend", b |-> b, n |-> n]
InBandErr(b, n) == [kind |-> "inband", b |-> b, n |-> n]
NotRegisteredErr(nm) == [kind |-> "not registered", b |-> nm, n |-> 0]
NoModelErr == [kind |-> "no model specified", b |-> NoName, n |-> 0]
\* An all-providers-failed error that drops the underlying error.
AllFailedErr_NoCause(e) == [kind |-> "all providers failed", b |-> NoName, n |-> 0]

\* fmt.Errorf("all providers failed: %w", err)
AllFailedErr(e) == [kind |-> "all providers failed", b |-> e.b, n |-> e.n]

NoContent == [b |-> NoName, n |-> 0, j |-> 0]
ContentOf(b, n, j) == [b |-> b, n |-> n, j |-> j]

CompletionResponse(content, e) == [Content |-> content, Err |-> e]
ZeroResponse == CompletionResponse(NoContent, NoErr)

NilChan == [nil |-> TRUE, elems |-> <<>>]
Chan(elems) == [nil |-> FALSE, elems |-> elems]

\* The stream a backend produces on invocation number n, by shape.
Shapes == {"one", "three", "empty", "inband"}
BackendStream(b, n, shape) ==
    CASE shape = "one"    -> <<CompletionResponse(ContentOf(b, n, 1), NoErr)>>
      [] shape = "three"  -> <<CompletionResponse(ContentOf(b, n, 1), NoErr),
                               CompletionResponse(ContentOf(b, n, 2), NoErr),
                               CompletionResponse(ContentOf(b, n, 3), NoErr)>>
      [] shape = "empty"  -> <<>>
      [] shape = "inband" -> <<CompletionResponse(NoContent, InBandErr(b, n))>>

(***************************************************************************)
(* Requests and the pure functions on them.                                *)
(***************************************************************************)
StreamFlags == {"nil", "true", "false"}

CompletionRequest(msgs, model, stream, temp, maxTok, topP, stop) ==
    [Messages |-> msgs, Model |-> model, Stream |-> stream, Temperature |-> temp,
     MaxTokens |-> maxTok, TopP |-> topP, Stop |-> stop]

\* An effective stream flag that is never true.
StreamValue_Never(r) == FALSE

\* An effective stream flag that ignores MaxTokens when Stream is unset.
StreamValue_IgnoresMaxTokens(r) == r.Stream = "true"

\* An effective stream flag that loses an explicit true.
StreamValue_ExplicitIgnored(r) == r.Stream = "nil" /\ r.MaxTokens > 0

StreamValue(r) ==
    IF r.Stream # "nil" THEN r.Stream = "true"
    ELSE IF r.Stream = "nil" /\ r.MaxTokens > 0 THEN TRUE
    ELSE FALSE

\* json.Marshal fails only on an unsupported float value (NaN, +-Inf).
MarshalFails(r) == r.Temperature = "NaN" \/ r.TopP = "NaN"

Floats == {"0", "0.7", "NaN"}

\* A digest that also covers the stream flag.
CachedRequest_WithStream(r) ==
    [Messages |-> r.Messages, Model |-> r.Model, Temperature |-> r.Temperature,
     MaxTokens |-> r.MaxTokens, TopP |-> r.TopP, Stop |-> r.Stop, Stream |-> r.Stream]

\* The digest of the JSON encoding of the six cached fields; the encoding is
\* injective on them and SHA-256 is taken to be collision free.
CachedRequest(r) ==
    [Messages |-> r.Messages, Model |-> r.Model, Temperature |-> r.Temperature,
     MaxTokens |-> r.MaxTokens, TopP |-> r.TopP, Stop |-> r.Stop]

\* The empty string getCacheKey returns with an error.
EmptyKey == [Messages |-> <<>>, Model |-> NoModel, Temperature |-> "none",
             MaxTokens |-> 0, TopP |-> "none", Stop |-> <<>>]

\* A key computation that cannot fail.
getCacheKey_NeverFails(r) == [key |-> CachedRequest(r), err |-> FALSE]

getCacheKey(r) ==
    IF MarshalFails(r) THEN [key |-> EmptyKey, err |-> TRUE]
    ELSE [key |-> CachedRequest(r), err |-> FALSE]

json_UnsupportedValueErr == [kind |-> "json: unsupported value", b |-> NoName, n |-> 0]

(***************************************************************************)
(* Providers.                                                              *)
(***************************************************************************)
ProviderConfig(model, maxTok, retry) ==
    [DefaultModel |-> model, DefaultMaxTokens |-> maxTok, RetryCount |-> retry]

Provider(nm, tier, cfg) == [Name |-> nm, tier |-> tier, cfg |-> cfg]

NoProvider == Provider(NoName, "none", ProviderConfig(NoModel, 0, 0))

\* The max tokens a backend puts in its payload for the request it is handed.
ProviderMaxTokens(cfg, r) ==
    IF r.MaxTokens = 0
    THEN IF cfg.DefaultMaxTokens = 0 THEN ProviderFallbackMaxTokens ELSE cfg.DefaultMaxTokens
    ELSE r.MaxTokens

ProviderMetrics(s, f, l) == [SuccessCount |-> s, FailureCount |-> f, TotalLatency |-> l]

\* An attempt budget that is off by one.
Attempts_OffByOne(p) == p.cfg.RetryCount + 2

Attempts(p) == IF p.cfg.RetryCount > 0 THEN p.cfg.RetryCount + 1 ELSE 1

VARIABLES
    DefaultProvider,    \* Agent.DefaultProvider
    FallbackProviders,  \* Agent.FallbackProviders
    userProviders,      \* Agent.userProviders: name -> Provider
    systemProviders,    \* Agent.systemProviders: name -> Provider
    cache,              \* Agent.cache: key -> cacheEntry
    cacheLock,          \* Agent.cacheLock: writer and set of readers
    CacheTTL,           \* Agent.CacheTTL
    metrics,            \* Agent.metrics: name -> ProviderMetrics
    now,                \* the wall clock read by time.Now()
    sweeper,            \* the sweeper goroutine: position and the now it read
    registrar,          \* the goroutine configuring the agent: its call in progress
    pc,                 \* position of each caller inside Complete
    calls,              \* number of Complete calls each caller has started
    cancelled,          \* ctx.Done() of the current call is closed
    providerName,       \* Complete's providerName argument
    req0,               \* the request as supplied by the caller
    req,                \* Complete's req (a by-value copy the call mutates)
    lookupKey,          \* key computed at the cache lookup
    name,               \* Complete's local name
    p,                  \* Complete's local p (the primary)
    cur,                \* tryProvider's argument current
    phase,              \* "primary" or "fallback": which call of tryProvider runs
    attempts,           \* tryProvider's local attempts
    i,                  \* tryProvider's loop index
    respChan,           \* respChan (of tryProvider, then of Complete)
    err,                \* err (of tryProvider, then of Complete)
    fbIdx,              \* position of the range loop over FallbackProviders
    fbList,             \* the slice the range loop iterates (evaluated once)
    resp,               \* the element CACHE_STORE received, with its ok flag
    result,             \* what Complete returned: stream, error
    invoked,            \* history: invocations of each backend's Complete
    trace,              \* history: the invocations made by the current call
    m0,                 \* history: metrics when the current call started
    mRun,               \* history: metrics when the current tryProvider run started
    stored,             \* history: the cache write of the current call
    prev,               \* history: summary of the caller's previous call
    adapter,            \* a backend adapter (providers/*.go): one Complete exchange
    vault               \* the secrets vault (vault.go, examples/app.go) and its clients

agentVars == <<registrar, DefaultProvider, FallbackProviders, userProviders, systemProviders,
               cache, cacheLock, CacheTTL, metrics, now, sweeper>>
callVars == <<pc, calls, cancelled, providerName, req0, req, lookupKey, name, p, cur, phase,
              attempts, i, respChan, err, fbIdx, fbList, resp, result>>
histVars == <<invoked, trace, m0, mRun, stored, prev>>
compVars == <<adapter, vault>>
vars == <<agentVars, callVars, histVars, compVars>>

(***************************************************************************)
(* Registry lookup: the user registry is probed first, then the system     *)
(* registry.                                                               *)
(***************************************************************************)
\* A resolution that skips the registry check.
Registered_Always(nm) == TRUE

\* The name is in one of the two registries.
Registered(nm) == nm \in DOMAIN userProviders \/ nm \in DOMAIN systemProviders

\* A lookup that probes the system registry first.
LookupProvider_SystemFirst(nm) ==
    IF nm \in DOMAIN systemProviders THEN systemProviders[nm]
    ELSE IF nm \in DOMAIN userProviders THEN userProviders[nm]
    ELSE NoProvider

\* if p, ok = a.userProviders[name]; !ok { p, ok = a.systemProviders[name] }
LookupProvider(nm) ==
    IF nm \in DOMAIN userProviders THEN userProviders[nm]
    ELSE IF nm \in DOMAIN systemProviders THEN systemProviders[nm]
    ELSE NoProvider

\* The max-tokens fallback of the primary.
DefaultMaxTokensPrimary(cfg, r) ==
    IF cfg.DefaultMaxTokens = 0
    THEN IF r.MaxTokens = 0 THEN [r EXCEPT !.MaxTokens = FallbackMaxTokens] ELSE r
    ELSE r

\* The max-tokens fallback of a fallback candidate.
DefaultMaxTokensFallback(cfg, r) ==
    IF cfg.DefaultMaxTokens = 0 /\ r.MaxTokens = 0
    THEN [r EXCEPT !.MaxTokens = FallbackMaxTokens]
    ELSE r

EmptyMap == [x \in {} |-> 0]

MapPut(f, k, v) == [x \in (DOMAIN f) \cup {k} |-> IF x = k THEN v ELSE f[x]]

MapRemove(f, ks) == [x \in (DOMAIN f) \ ks |-> f[x]]

cacheEntry(content, expiresAt) == [content |-> content, expiresAt |-> expiresAt]

NoLookupKey == [computed |-> FALSE, key |-> CachedRequest(CompletionRequest(<<>>, NoModel, "nil", "0", 0, "0", <<>>))]
NoStore == [done |-> FALSE, key |-> NoLookupKey.key, content |-> NoContent, at |-> 0]
NoResp == [ok |-> FALSE, v |-> ZeroResponse]
NoResult == [chan |-> NilChan, err |-> NoErr]
NoPrev == [valid |-> FALSE, providerName |-> NoName, req0 |-> CompletionRequest(<<>>, NoModel, "nil", "0", 0, "0", <<>>),
           err |-> NoErr, resp |-> NoResp, ninv |-> 0, at |-> 0, stored |-> NoStore]

(***************************************************************************)
(* Configuration of the agent: the registration calls and SetDefault.  The *)
(* agent has no lock for the registries, the fallback list or the default  *)
(* name, so a call is a check, a plain write and a return.                 *)
(***************************************************************************)
DefaultNotRegisteredErr == [kind |-> "default provider not registered", b |-> NoName, n |-> 0]

NoRegistrar ==
    [pc |-> "idle", kind |-> "none", prov |-> NoProvider, nm |-> NoName, names |-> <<>>,
     landed |-> FALSE, ret |-> NoErr, old |-> NoName]

\* Entry of RegisterProvidersFromUser(p).
RegisterProvidersFromUser(pv) ==
    /\ registrar.pc = "idle"
    /\ registrar' = [NoRegistrar EXCEPT !.pc = "writing", !.kind = "user",
                                        !.prov = [pv EXCEPT !.tier = "user"], !.nm = pv.Name,
                                        !.old = DefaultProvider]
    /\ UNCHANGED <<DefaultProvider, FallbackProviders, userProviders, systemProviders,
                   cache, cacheLock, CacheTTL, metrics, now, sweeper>>
    /\ UNCHANGED <<callVars, histVars, compVars>>

\* Entry of RegisterProvidersFromSystem(p).
RegisterProvidersFromSystem(pv) ==
    /\ registrar.pc = "idle"
    /\ registrar' = [NoRegistrar EXCEPT !.pc = "writing", !.kind = "system",
                                        !.prov = [pv EXCEPT !.tier = "system"], !.nm = pv.Name,
                                        !.old = DefaultProvider]
    /\ UNCHANGED <<DefaultProvider, FallbackProviders, userProviders, systemProviders,
                   cache, cacheLock, CacheTTL, metrics, now, sweeper>>
    /\ UNCHANGED <<callVars, histVars, compVars>>

\* A default selection that only consults the user registry.
SetDefaultAccepts_UserOnly(nm) == nm \in DOMAIN userProviders

\* The probe of SetDefault: the user registry, then the system registry.
SetDefaultAccepts(nm) == nm \in DOMAIN userProviders \/ nm \in DOMAIN systemProviders

\* SetDefault(name): the registry check, and the error return when it fails.
SetDefault(nm) ==
    /\ registrar.pc = "idle"
    /\ IF SetDefaultAccepts(nm)
       THEN registrar' = [NoRegistrar EXCEPT !.pc = "writing", !.kind = "default", !.nm = nm,
                                            !.old = DefaultProvider]
       ELSE registrar' = [NoRegistrar EXCEPT !.kind = "default", !.nm = nm,
                                            !.ret = DefaultNotRegisteredErr,
                                            !.old = DefaultProvider]
    /\ UNCHANGED <<DefaultProvider, FallbackProviders, userProviders, systemProviders,
                   cache, cacheLock, CacheTTL, metrics, now, sweeper>>
    /\ UNCHANGED <<callVars, histVars, compVars>>

\* Entry of RegisterFallbackProviders(names).
RegisterFallbackProviders(names) ==
    /\ registrar.pc = "idle"
    /\ registrar' = [NoRegistrar EXCEPT !.pc = "writing", !.kind = "fallback", !.names = names,
                                        !.old = DefaultProvider]
    /\ UNCHANGED <<DefaultProvider, FallbackProviders, userProviders, systemProviders,
                   cache, cacheLock, CacheTTL, metrics, now, sweeper>>
    /\ UNCHANGED <<callVars, histVars, compVars>>

\* The write of the call in progress: the map store or the field assignment.
RegistryWrite ==
    /\ registrar.pc = "writing" /\ ~registrar.landed
    /\ registrar' = [registrar EXCEPT !.landed = TRUE]
    /\ userProviders' = IF registrar.kind = "user"
                         THEN MapPut(userProviders, registrar.nm, registrar.prov)
                         ELSE userProviders
    /\ systemProviders' = IF registrar.kind = "system"
                           THEN MapPut(systemProviders, registrar.nm, registrar.prov)
                           ELSE systemProviders
    /\ DefaultProvider' = IF registrar.kind = "default" THEN registrar.nm ELSE DefaultProvider
    /\ FallbackProviders' = IF registrar.kind = "fallback" THEN registrar.names
                             ELSE FallbackProviders
    /\ UNCHANGED <<cache, cacheLock, CacheTTL, metrics, now, sweeper>>
    /\ UNCHANGED <<callVars, histVars, compVars>>

\* The return of the call in progress.
RegistryReturn ==
    /\ registrar.pc = "writing" /\ registrar.landed
    /\ registrar' = [registrar EXCEPT !.pc = "idle"]
    /\ UNCHANGED <<DefaultProvider, FallbackProviders, userProviders, systemProviders,
                   cache, cacheLock, CacheTTL, metrics, now, sweeper>>
    /\ UNCHANGED <<callVars, histVars, compVars>>

\* The next step of the Complete call of c reads what the call in progress
\* of the registrar writes: the default name, a registry map or the fallback
\* list.
ReadsWritten(c) ==
    /\ registrar.pc = "writing"
    /\ \/ /\ pc[c] = "resolve"
          /\ \/ registrar.kind = "default" /\ providerName[c] = NoName
             \/ registrar.kind = "user"
             \/ /\ registrar.kind = "system"
                /\ (IF providerName[c] = NoName THEN DefaultProvider ELSE providerName[c])
                      \notin DOMAIN userProviders
       \/ /\ pc[c] = "after_try" /\ phase[c] = "primary" /\ err[c] # NoErr
          /\ registrar.kind = "fallback"
       \/ /\ pc[c] = "fallback" /\ fbIdx[c] <= Len(fbList[c])
          /\ fbList[c][fbIdx[c]] # name[c]
          /\ \/ registrar.kind = "user"
             \/ /\ registrar.kind = "system"
                /\ fbList[c][fbIdx[c]] \notin DOMAIN userProviders

\* The unsynchronized read meets the write: the Go runtime may stop the
\* process (fatal error: concurrent map read and map write); otherwise the
\* read sees the value before or after the write.  A stopped process takes no
\* further step.
Fatal(c) ==
    /\ ReadsWritten(c)
    /\ registrar' = [registrar EXCEPT !.pc = "fatal"]
    /\ pc' = [x \in AllCallers |-> "fatal"]
    /\ UNCHANGED <<DefaultProvider, FallbackProviders, userProviders, systemProviders,
                   cache, cacheLock, CacheTTL, metrics, now, sweeper>>
    /\ UNCHANGED <<calls, cancelled, providerName, req0, req, lookupKey, name, p, cur, phase,
                   attempts, i, respChan, err, fbIdx, fbList, resp, result>>
    /\ UNCHANGED <<histVars, compVars>>

\* key, err := getCacheKey(req), applied to the request c holds.
GetCacheKey(c) ==
    /\ pc[c] = "idle"
    /\ lookupKey' = [lookupKey EXCEPT ![c] = [computed |-> TRUE, key |-> getCacheKey(req0[c]).key]]
    /\ err' = [err EXCEPT ![c] = IF getCacheKey(req0[c]).err THEN json_UnsupportedValueErr ELSE NoErr]
    /\ pc' = [pc EXCEPT ![c] = "done"]
    /\ UNCHANGED agentVars
    /\ UNCHANGED <<calls, cancelled, providerName, req0, req, name, p, cur, phase, attempts, i,
                   respChan, fbIdx, fbList, resp, result>>
    /\ UNCHANGED <<histVars, compVars>>

(***************************************************************************)
(* Agent.Complete, one action per step of the call.                        *)
(***************************************************************************)
\* Entry of Complete(ctx, providerName, req).
Call(c, pn, r, budget) ==
    /\ pc[c] \in {"idle", "done"}
    /\ calls[c] < budget
    /\ calls' = [calls EXCEPT ![c] = @ + 1]
    /\ cancelled' = [cancelled EXCEPT ![c] = FALSE]
    /\ pc' = [pc EXCEPT ![c] = "lookup"]
    /\ providerName' = [providerName EXCEPT ![c] = pn]
    /\ req0' = [req0 EXCEPT ![c] = r]
    /\ req' = [req EXCEPT ![c] = r]
    /\ lookupKey' = [lookupKey EXCEPT ![c] = NoLookupKey]
    /\ name' = [name EXCEPT ![c] = NoName]
    /\ p' = [p EXCEPT ![c] = NoProvider]
    /\ cur' = [cur EXCEPT ![c] = NoProvider]
    /\ phase' = [phase EXCEPT ![c] = "none"]
    /\ attempts' = [attempts EXCEPT ![c] = 0]
    /\ i' = [i EXCEPT ![c] = 0]
    /\ respChan' = [respChan EXCEPT ![c] = NilChan]
    /\ err' = [err EXCEPT ![c] = NoErr]
    /\ fbIdx' = [fbIdx EXCEPT ![c] = 0]
    /\ fbList' = [fbList EXCEPT ![c] = <<>>]
    /\ resp' = [resp EXCEPT ![c] = NoResp]
    /\ result' = [result EXCEPT ![c] = NoResult]
    /\ trace' = [trace EXCEPT ![c] = <<>>]
    /\ m0' = [m0 EXCEPT ![c] = [metrics |-> metrics, at |-> now]]
    /\ mRun' = [mRun EXCEPT ![c] = ProviderMetrics(0, 0, 0)]
    /\ stored' = [stored EXCEPT ![c] = NoStore]
    /\ prev' = [prev EXCEPT ![c] =
                  IF pc[c] = "done"
                  THEN [valid |-> TRUE, providerName |-> providerName[c], req0 |-> req0[c],
                        err |-> result[c].err, resp |-> resp[c], ninv |-> Len(trace[c]),
                        at |-> m0[c].at, stored |-> stored[c]]
                  ELSE NoPrev]
    /\ UNCHANGED <<agentVars, invoked, compVars>>

\* The caller's context is cancelled while the call is in progress.
Cancel(c) ==
    /\ pc[c] \notin {"idle", "done", "blocked"}
    /\ ~cancelled[c]
    /\ cancelled' = [cancelled EXCEPT ![c] = TRUE]
    /\ UNCHANGED agentVars
    /\ UNCHANGED <<pc, calls, providerName, req0, req, lookupKey, name, p, cur, phase, attempts, i,
                   respChan, err, fbIdx, fbList, resp, result>>
    /\ UNCHANGED <<histVars, compVars>>

\* if !req.StreamValue() { key, err := getCacheKey(req); if err == nil { RLock
CacheLookup(c) ==
    /\ pc[c] = "lookup"
    /\ IF ~StreamValue(req[c]) /\ ~getCacheKey(req[c]).err
       THEN /\ cacheLock.w = "none"
            /\ cacheLock' = [cacheLock EXCEPT !.r = @ \cup {c}]
            /\ lookupKey' = [lookupKey EXCEPT ![c] = [computed |-> TRUE, key |-> getCacheKey(req[c]).key]]
            /\ pc' = [pc EXCEPT ![c] = "cache_read"]
       ELSE /\ pc' = [pc EXCEPT ![c] = "resolve"]
            /\ UNCHANGED <<cacheLock, lookupKey>>
    /\ UNCHANGED <<registrar, DefaultProvider, FallbackProviders, userProviders, systemProviders,
                   cache, CacheTTL, metrics, now, sweeper>>
    /\ UNCHANGED <<calls, cancelled, providerName, req0, req, name, p, cur, phase, attempts, i,
                   respChan, err, fbIdx, fbList, resp, result>>
    /\ UNCHANGED <<histVars, compVars>>

\* A lookup that finds nothing.
CacheHit_Never(key) == FALSE

\* A hit test that still serves an entry at its expiry instant.
CacheHit_NotStrict(key) == key \in DOMAIN cache /\ cache[key].expiresAt >= now

\* A cache hit: the entry exists and expires strictly after now.
CacheHit(key) == key \in DOMAIN cache /\ cache[key].expiresAt > now

\* The map read under the read lock, the hit return, RUnlock.
CacheRead(c) ==
    /\ pc[c] = "cache_read"
    /\ cacheLock' = [cacheLock EXCEPT !.r = @ \ {c}]
    /\ IF CacheHit(lookupKey[c].key)
       THEN /\ result' = [result EXCEPT ![c] =
                   [chan |-> Chan(<<CompletionResponse(cache[lookupKey[c].key].content, NoErr)>>),
                    err |-> NoErr]]
            /\ pc' = [pc EXCEPT ![c] = "done"]
       ELSE /\ pc' = [pc EXCEPT ![c] = "resolve"]
            /\ UNCHANGED result
    /\ UNCHANGED <<registrar, DefaultProvider, FallbackProviders, userProviders, systemProviders,
                   cache, CacheTTL, metrics, now, sweeper>>
    /\ UNCHANGED <<calls, cancelled, providerName, req0, req, lookupKey, name, p, cur, phase, attempts, i,
                   respChan, err, fbIdx, fbList, resp>>
    /\ UNCHANGED <<histVars, compVars>>

\* A resolution that always takes the default.
ResolveName_AlwaysDefault(pn, def) == def

\* name := providerName; if name == "" { name = a.DefaultProvider }
ResolveName(pn, def) == IF pn = NoName THEN def ELSE pn

\* A resolution that skips the model check.
NoModelResolvable_Never(cfg, r) == FALSE

\* if p.cfg.DefaultModel == "" && req.Model == ""
NoModelResolvable(cfg, r) == cfg.DefaultModel = NoModel /\ r.Model = NoModel

\* Provider selection, the model check and the max-tokens default.
Resolve(c) ==
    /\ pc[c] = "resolve"
    /\ LET nm == ResolveName(providerName[c], DefaultProvider)
           prov == LookupProvider(nm)
       IN /\ name' = [name EXCEPT ![c] = nm]
          /\ IF ~Registered(nm)
             THEN /\ result' = [result EXCEPT ![c] = [chan |-> NilChan, err |-> NotRegisteredErr(nm)]]
                  /\ pc' = [pc EXCEPT ![c] = "done"]
                  /\ UNCHANGED <<p, cur, phase, req>>
             ELSE IF NoModelResolvable(prov.cfg, req[c])
             THEN /\ result' = [result EXCEPT ![c] = [chan |-> NilChan, err |-> NoModelErr]]
                  /\ pc' = [pc EXCEPT ![c] = "done"]
                  /\ p' = [p EXCEPT ![c] = prov]
                  /\ UNCHANGED <<cur, phase, req>>
             ELSE /\ p' = [p EXCEPT ![c] = prov]
                  /\ req' = [req EXCEPT ![c] = DefaultMaxTokensPrimary(prov.cfg, @)]
                  /\ cur' = [cur EXCEPT ![c] = prov]
                  /\ phase' = [phase EXCEPT ![c] = "primary"]
                  /\ pc' = [pc EXCEPT ![c] = "try"]
                  /\ UNCHANGED result
    /\ UNCHANGED agentVars
    /\ UNCHANGED <<calls, cancelled, providerName, req0, lookupKey, attempts, i, respChan, err, fbIdx, fbList, resp>>
    /\ UNCHANGED <<histVars, compVars>>

(***************************************************************************)
(* tryProvider: the retry executor.                                        *)
(***************************************************************************)
\* Lazy creation of the metrics record under metricsLock; the attempt budget.
TryBegin(c) ==
    /\ pc[c] = "try"
    /\ metrics' = IF cur[c].Name \in DOMAIN metrics THEN metrics
                  ELSE MapPut(metrics, cur[c].Name, ProviderMetrics(0, 0, 0))
    /\ attempts' = [attempts EXCEPT ![c] = Attempts(cur[c])]
    /\ i' = [i EXCEPT ![c] = 0]
    /\ respChan' = [respChan EXCEPT ![c] = NilChan]
    /\ err' = [err EXCEPT ![c] = NoErr]
    /\ pc' = [pc EXCEPT ![c] = "invoke"]
    /\ mRun' = [mRun EXCEPT ![c] = metrics'[cur[c].Name]]
    /\ UNCHANGED <<registrar, DefaultProvider, FallbackProviders, userProviders, systemProviders,
                   cache, cacheLock, CacheTTL, now, sweeper>>
    /\ UNCHANGED <<calls, cancelled, providerName, req0, req, lookupKey, name, p, cur, phase,
                   fbIdx, fbList, resp, result>>
    /\ UNCHANGED <<invoked, trace, m0, stored, prev, compVars>>

\* respChan, err = current.Complete(ctx, req): the backend either returns an
\* error or a stream of one of the shapes; outcomes is what it may do.
Invoke(c, outcomes) ==
    /\ pc[c] = "invoke"
    /\ i[c] < attempts[c]
    /\ LET b == cur[c].Name
           n == invoked[b] + 1
       IN /\ invoked' = [invoked EXCEPT ![b] = n]
          /\ \E outcome \in outcomes :
                /\ IF outcome = "error"
                   THEN /\ respChan' = [respChan EXCEPT ![c] = NilChan]
                        /\ err' = [err EXCEPT ![c] = BackendErr(b, n)]
                   ELSE /\ respChan' = [respChan EXCEPT ![c] = Chan(BackendStream(b, n, outcome))]
                        /\ err' = [err EXCEPT ![c] = NoErr]
                /\ trace' = [trace EXCEPT ![c] =
                               Append(@, [b |-> b, tier |-> cur[c].tier, n |-> n,
                                          slot |-> fbIdx[c], retry |-> cur[c].cfg.RetryCount,
                                          ok |-> outcome # "error", req |-> req[c],
                                          chan |-> IF outcome = "error" THEN NilChan
                                                   ELSE Chan(BackendStream(b, n, outcome))])]
    /\ pc' = [pc EXCEPT ![c] = "record"]
    /\ UNCHANGED agentVars
    /\ UNCHANGED <<calls, cancelled, providerName, req0, req, lookupKey, name, p, cur, phase, attempts, i,
                   fbIdx, fbList, resp, result>>
    /\ UNCHANGED <<m0, mRun, stored, prev, compVars>>

\* A metrics update that counts every attempt as a failure.
RecordMetrics_AlwaysFailure(m, latency, ok) ==
    ProviderMetrics(m.SuccessCount, m.FailureCount + 1, m.TotalLatency + latency)

\* A metrics update that forgets to count a failure.
RecordMetrics_FailureNotCounted(m, latency, ok) ==
    IF ok THEN ProviderMetrics(m.SuccessCount + 1, m.FailureCount, m.TotalLatency + latency)
    ELSE ProviderMetrics(m.SuccessCount, m.FailureCount, m.TotalLatency + latency)

\* A metrics update that counts a success as a failure and a failure as a
\* success.
RecordMetrics_Swapped(m, latency, ok) ==
    IF ok THEN ProviderMetrics(m.SuccessCount, m.FailureCount + 1, m.TotalLatency + latency)
    ELSE ProviderMetrics(m.SuccessCount + 1, m.FailureCount, m.TotalLatency + latency)

\* The metrics update of one attempt under metricsLock.
RecordMetrics(m, latency, ok) ==
    IF ok THEN ProviderMetrics(m.SuccessCount + 1, m.FailureCount, m.TotalLatency + latency)
    ELSE ProviderMetrics(m.SuccessCount, m.FailureCount + 1, m.TotalLatency + latency)

\* The metrics update, then the retry decision: return on success, else sleep
\* and loop, and return (nil, err) when the budget is used up.  latencies is
\* what time.Since(start) may yield.
Record(c, latencies) ==
    /\ pc[c] = "record"
    /\ \E latency \in latencies :
          metrics' = [metrics EXCEPT ![cur[c].Name] = RecordMetrics(@, latency, err[c] = NoErr)]
    /\ IF err[c] = NoErr
       THEN /\ pc' = [pc EXCEPT ![c] = "after_try"]
            /\ UNCHANGED <<i, respChan>>
       ELSE /\ i' = [i EXCEPT ![c] = @ + 1]
            /\ IF i[c] + 1 < attempts[c]
               THEN /\ pc' = [pc EXCEPT ![c] = "invoke"]
                    /\ UNCHANGED respChan
               ELSE /\ pc' = [pc EXCEPT ![c] = "after_try"]
                    /\ respChan' = [respChan EXCEPT ![c] = NilChan]
    /\ UNCHANGED <<registrar, DefaultProvider, FallbackProviders, userProviders, systemProviders,
                   cache, cacheLock, CacheTTL, now, sweeper>>
    /\ UNCHANGED <<calls, cancelled, providerName, req0, req, lookupKey, name, p, cur, phase, attempts,
                   err, fbIdx, fbList, resp, result>>
    /\ UNCHANGED <<histVars, compVars>>

(***************************************************************************)
(* The fallback chain.                                                     *)
(***************************************************************************)
\* A fallback loop that does not leave on success.
FallbackSucceeded_Never(e) == FALSE

\* if respChan, err = tryProvider(fb); err == nil { goto CACHE_STORE }
FallbackSucceeded(e) == e = NoErr

\* A fallback loop that does not pass over the primary's own name.
SkipCandidate_NotPrimary(primary, fbName, r) ==
    \/ ~Registered(fbName)
    \/ (LookupProvider(fbName).cfg.DefaultModel = NoModel /\ r.Model = NoModel)

\* A fallback loop that does not pass over unregistered names.
SkipCandidate_NotUnregistered(primary, fbName, r) ==
    \/ fbName = primary
    \/ (LookupProvider(fbName).cfg.DefaultModel = NoModel /\ r.Model = NoModel)

\* A fallback loop that does not re-validate the model.
SkipCandidate_NotNoModel(primary, fbName, r) ==
    \/ fbName = primary
    \/ ~Registered(fbName)

\* The names the fallback loop passes over: the primary's own name, a name in
\* neither registry, a candidate for which no model can be resolved.
SkipCandidate(primary, fbName, r) ==
    \/ fbName = primary
    \/ ~Registered(fbName)
    \/ (LookupProvider(fbName).cfg.DefaultModel = NoModel /\ r.Model = NoModel)

\* What Complete does with the (respChan, err) a tryProvider call returned.
AfterTry(c) ==
    /\ pc[c] = "after_try"
    /\ IF phase[c] = "primary"
       THEN IF err[c] # NoErr /\ Len(FallbackProviders) > 0
            THEN /\ fbList' = [fbList EXCEPT ![c] = FallbackProviders]
                 /\ fbIdx' = [fbIdx EXCEPT ![c] = 1]
                 /\ pc' = [pc EXCEPT ![c] = "fallback"]
            ELSE /\ pc' = [pc EXCEPT ![c] = "cache_store"]
                 /\ UNCHANGED <<fbList, fbIdx>>
       ELSE IF FallbackSucceeded(err[c])
            THEN /\ pc' = [pc EXCEPT ![c] = "cache_store"]
                 /\ UNCHANGED <<fbList, fbIdx>>
            ELSE /\ fbIdx' = [fbIdx EXCEPT ![c] = @ + 1]
                 /\ pc' = [pc EXCEPT ![c] = "fallback"]
                 /\ UNCHANGED fbList
    /\ UNCHANGED agentVars
    /\ UNCHANGED <<calls, cancelled, providerName, req0, req, lookupKey, name, p, cur, phase, attempts, i,
                   respChan, err, resp, result>>
    /\ UNCHANGED <<histVars, compVars>>

\* One iteration of the range loop over the fallback names, up to the call
\* of tryProvider(fb); after the last name the all-providers-failed return.
FallbackNext(c) ==
    /\ pc[c] = "fallback"
    /\ IF fbIdx[c] > Len(fbList[c])
       THEN /\ result' = [result EXCEPT ![c] = [chan |-> NilChan, err |-> AllFailedErr(err[c])]]
            /\ pc' = [pc EXCEPT ![c] = "done"]
            /\ UNCHANGED <<fbIdx, cur, phase, req>>
       ELSE LET fbName == fbList[c][fbIdx[c]]
                fb == LookupProvider(fbName)
            IN IF SkipCandidate(name[c], fbName, req[c])
               THEN /\ fbIdx' = [fbIdx EXCEPT ![c] = @ + 1]
                    /\ UNCHANGED <<result, pc, cur, phase, req>>
               ELSE /\ req' = [req EXCEPT ![c] = DefaultMaxTokensFallback(fb.cfg, @)]
                    /\ cur' = [cur EXCEPT ![c] = fb]
                    /\ phase' = [phase EXCEPT ![c] = "fallback"]
                    /\ pc' = [pc EXCEPT ![c] = "try"]
                    /\ UNCHANGED <<result, fbIdx>>
    /\ UNCHANGED agentVars
    /\ UNCHANGED <<calls, cancelled, providerName, req0, lookupKey, name, p, attempts, i,
                   respChan, err, fbList, resp>>
    /\ UNCHANGED <<histVars, compVars>>

(***************************************************************************)
(* CACHE_STORE: the epilogue of Complete.                                  *)
(***************************************************************************)
\* resp, ok := <-respChan: the first element, or the zero value and false
\* when the channel is closed and empty.
Receive(ch) ==
    IF ch.elems # <<>> THEN [ok |-> TRUE, v |-> Head(ch.elems)]
    ELSE [ok |-> FALSE, v |-> ZeroResponse]

\* A response that forgets to look at the element's error.
Cacheable_IgnoresErr(rcv) == rcv.ok

\* if ok && resp.Err == nil: the received element may be cached.
Cacheable(rcv) == rcv.ok /\ rcv.v.Err = NoErr

\* The streaming return, or the receive of the first element and the
\* decision to cache it.  A receive from a nil channel blocks forever.
CacheStore(c) ==
    /\ pc[c] = "cache_store"
    /\ IF StreamValue(req[c])
       THEN /\ result' = [result EXCEPT ![c] = [chan |-> respChan[c], err |-> NoErr]]
            /\ pc' = [pc EXCEPT ![c] = "done"]
            /\ UNCHANGED <<resp, respChan>>
       ELSE IF respChan[c].nil
       THEN /\ pc' = [pc EXCEPT ![c] = "blocked"]
            /\ UNCHANGED <<resp, respChan, result>>
       ELSE LET rcv == Receive(respChan[c])
            IN /\ resp' = [resp EXCEPT ![c] = rcv]
               /\ respChan' = [respChan EXCEPT ![c] =
                                 IF rcv.ok THEN Chan(Tail(@.elems)) ELSE @]
               /\ IF Cacheable(rcv) /\ ~getCacheKey(req[c]).err
                  THEN /\ pc' = [pc EXCEPT ![c] = "store_lock"]
                       /\ UNCHANGED result
                  ELSE /\ result' = [result EXCEPT ![c] = [chan |-> Chan(<<rcv.v>>), err |-> NoErr]]
                       /\ pc' = [pc EXCEPT ![c] = "done"]
    /\ UNCHANGED agentVars
    /\ UNCHANGED <<calls, cancelled, providerName, req0, req, lookupKey, name, p, cur, phase, attempts, i,
                   err, fbIdx, fbList>>
    /\ UNCHANGED <<histVars, compVars>>

\* a.cacheLock.Lock()
StoreLock(c) ==
    /\ pc[c] = "store_lock"
    /\ cacheLock.w = "none" /\ cacheLock.r = {}
    /\ cacheLock' = [cacheLock EXCEPT !.w = c]
    /\ pc' = [pc EXCEPT ![c] = "store_write"]
    /\ UNCHANGED <<registrar, DefaultProvider, FallbackProviders, userProviders, systemProviders,
                   cache, CacheTTL, metrics, now, sweeper>>
    /\ UNCHANGED <<calls, cancelled, providerName, req0, req, lookupKey, name, p, cur, phase, attempts, i,
                   respChan, err, fbIdx, fbList, resp, result>>
    /\ UNCHANGED <<histVars, compVars>>

\* The key the entry is stored under.
StoreKey(c) == getCacheKey(req[c]).key

\* a.cache[key] = cacheEntry{...}; Unlock; return of the one-element stream.
StoreWrite(c) ==
    /\ pc[c] = "store_write"
    /\ cache' = MapPut(cache, StoreKey(c), cacheEntry(resp[c].v.Content, now + CacheTTL))
    /\ cacheLock' = [cacheLock EXCEPT !.w = "none"]
    /\ stored' = [stored EXCEPT ![c] = [done |-> TRUE, key |-> StoreKey(c),
                                        content |-> resp[c].v.Content, at |-> now]]
    /\ result' = [result EXCEPT ![c] = [chan |-> Chan(<<resp[c].v>>), err |-> NoErr]]
    /\ pc' = [pc EXCEPT ![c] = "done"]
    /\ UNCHANGED <<registrar, DefaultProvider, FallbackProviders, userProviders, systemProviders,
                   CacheTTL, metrics, now, sweeper>>
    /\ UNCHANGED <<calls, cancelled, providerName, req0, req, lookupKey, name, p, cur, phase, attempts, i,
                   respChan, err, fbIdx, fbList, resp>>
    /\ UNCHANGED <<invoked, trace, m0, mRun, prev, compVars>>

(***************************************************************************)
(* Time and the background sweeper started by NewAgent.                    *)
(***************************************************************************)
Tick ==
    /\ now < MaxTime
    /\ now' = now + 1
    /\ UNCHANGED <<registrar, DefaultProvider, FallbackProviders, userProviders, systemProviders,
                   cache, cacheLock, CacheTTL, metrics, sweeper>>
    /\ UNCHANGED <<callVars, histVars, compVars>>

\* The ticker fires: now := time.Now()
SweepTick ==
    /\ sweeper.pc = "wait"
    /\ sweeper' = [pc |-> "lock", now |-> now]
    /\ UNCHANGED <<registrar, DefaultProvider, FallbackProviders, userProviders, systemProviders,
                   cache, cacheLock, CacheTTL, metrics, now>>
    /\ UNCHANGED <<callVars, histVars, compVars>>

\* agent.cacheLock.Lock()
SweepLock ==
    /\ sweeper.pc = "lock"
    /\ cacheLock.w = "none" /\ cacheLock.r = {}
    /\ cacheLock' = [cacheLock EXCEPT !.w = "sweeper"]
    /\ sweeper' = [sweeper EXCEPT !.pc = "pass"]
    /\ UNCHANGED <<registrar, DefaultProvider, FallbackProviders, userProviders, systemProviders,
                   cache, CacheTTL, metrics, now>>
    /\ UNCHANGED <<callVars, histVars, compVars>>

\* A pass that also deletes the entries expiring within the next instant.
Expired_TooEager(t) == {k \in DOMAIN cache : cache[k].expiresAt <= t + 1}

\* The entries one pass deletes: those that expired before the now it read.
Expired(t) == {k \in DOMAIN cache : cache[k].expiresAt < t}

\* A pass that returns without unlocking.
SweepPass_KeepsLock ==
    /\ sweeper.pc = "pass"
    /\ cache' = MapRemove(cache, Expired(sweeper.now))
    /\ sweeper' = [sweeper EXCEPT !.pc = "wait"]
    /\ UNCHANGED <<registrar, DefaultProvider, FallbackProviders, userProviders, systemProviders,
                   cacheLock, CacheTTL, metrics, now>>
    /\ UNCHANGED <<callVars, histVars, compVars>>

\* One pass over the map, then Unlock.
SweepPass ==
    /\ sweeper.pc = "pass"
    /\ cache' = MapRemove(cache, Expired(sweeper.now))
    /\ cacheLock' = [cacheLock EXCEPT !.w = "none"]
    /\ sweeper' = [sweeper EXCEPT !.pc = "wait"]
    /\ UNCHANGED <<registrar, DefaultProvider, FallbackProviders, userProviders, systemProviders,
                   CacheTTL, metrics, now>>
    /\ UNCHANGED <<callVars, histVars, compVars>>

\* The steps of one caller inside Complete.
Step(c, outcomes, latencies) ==
    \/ CacheLookup(c)
    \/ CacheRead(c)
    \/ Resolve(c)
    \/ TryBegin(c)
    \/ Invoke(c, outcomes)
    \/ Record(c, latencies)
    \/ AfterTry(c)
    \/ FallbackNext(c)
    \/ CacheStore(c)
    \/ StoreLock(c)
    \/ StoreWrite(c)

(***************************************************************************)
(* A backend adapter (providers/openai.go, claude.go, sonnet.go): Complete *)
(* applies the adapter's defaults to its copy of the request and starts a  *)
(* goroutine that builds the payload, sends it and feeds the stream.       *)
(***************************************************************************)
AdapterConfig(kind, apiKey, model, stream, maxTok) ==
    [kind |-> kind, apiKey |-> apiKey, DefaultModel |-> model, DefaultStream |-> stream,
     DefaultTemperature |-> "0.7", DefaultMaxTokens |-> maxTok, DefaultTopP |-> "0.7"]

ApiKeyErr == [kind |-> "API key is required", b |-> NoName, n |-> 0]
ClientErr == [kind |-> "client", b |-> NoName, n |-> 0]
UnmarshalErr == [kind |-> "json: cannot unmarshal", b |-> NoName, n |-> 0]
ReadErr == [kind |-> "read", b |-> NoName, n |-> 0]

NoAdapter ==
    [pc |-> "idle", cfg |-> AdapterConfig("openai", "", NoModel, "nil", 0),
     req0 |-> NoPrev.req0, req |-> NoPrev.req0, payload |-> [built |-> FALSE, model |-> NoModel, stream |-> FALSE, max_tokens |-> 0],
     out |-> <<>>, closed |-> FALSE, ret |-> NoErr]

\* The defaults the adapter applies to its copy of the request.
AdapterDefaults(cfg, r) ==
    [r EXCEPT
        !.Model = IF @ = NoModel THEN cfg.DefaultModel ELSE @,
        !.Stream = IF @ = "nil" /\ cfg.DefaultStream # "nil" THEN cfg.DefaultStream ELSE @,
        !.Temperature = IF @ = "0" THEN cfg.DefaultTemperature ELSE @,
        !.MaxTokens = ProviderMaxTokens(cfg, r),
        !.TopP = IF @ = "0" THEN cfg.DefaultTopP ELSE @]

\* Complete(ctx, req) up to its return: the key check, the defaults, the
\* channel and the start of the goroutine.
AdapterComplete(r) ==
    /\ adapter.pc = "idle"
    /\ IF adapter.cfg.apiKey = ""
       THEN adapter' = [adapter EXCEPT !.pc = "returned", !.req0 = r, !.req = r, !.ret = ApiKeyErr]
       ELSE adapter' = [adapter EXCEPT !.pc = "payload", !.req0 = r,
                                        !.req = AdapterDefaults(adapter.cfg, r), !.ret = NoErr]
    /\ UNCHANGED <<agentVars, callVars, histVars, vault>>

\* The goroutine builds the payload: "stream": *req.Stream dereferences the
\* pointer, and a nil pointer makes the goroutine panic, which ends the
\* process (the deferred close(out) runs first).
AdapterPayload ==
    /\ adapter.pc = "payload"
    /\ IF adapter.req.Stream = "nil"
       THEN adapter' = [adapter EXCEPT !.pc = "panic", !.closed = TRUE]
       ELSE adapter' = [adapter EXCEPT
                           !.pc = "exchange",
                           !.payload = [built |-> TRUE, model |-> adapter.req.Model,
                                        stream |-> adapter.req.Stream = "true",
                                        max_tokens |-> adapter.req.MaxTokens]]
    /\ UNCHANGED <<agentVars, callVars, histVars, vault>>

\* What the goroutine sends for a reply of the given kind: the client call
\* fails; the body of a non-streaming reply parses, does not parse, or (for
\* openai) has no choice; a streaming reply is read line by line until EOF
\* or a read error.
AdapterReplies == {"client error", "body", "bad body", "no choice", "lines", "broken lines"}

AdapterStream(kind, r, reply) ==
    IF reply = "client error" THEN <<CompletionResponse(NoContent, ClientErr)>>
    ELSE IF ~StreamValue(r)
    THEN CASE reply \in {"bad body", "broken lines"} ->
                 <<CompletionResponse(NoContent, UnmarshalErr)>>
           [] reply = "no choice" /\ kind = "openai" -> <<>>
           [] OTHER -> <<CompletionResponse(ContentOf(kind, 1, 1), NoErr)>>
    ELSE CASE reply \in {"bad body", "broken lines"} ->
                 <<CompletionResponse(ContentOf(kind, 1, 1), NoErr),
                   CompletionResponse(NoContent, ReadErr)>>
           [] OTHER -> <<CompletionResponse(ContentOf(kind, 1, 1), NoErr),
                         CompletionResponse(ContentOf(kind, 1, 2), NoErr)>>

\* The exchange with the service and the elements sent on out, then
\* close(out).
AdapterExchange(reply) ==
    /\ adapter.pc = "exchange"
    /\ adapter' = [adapter EXCEPT !.pc = "closed", !.closed = TRUE,
                                  !.out = AdapterStream(adapter.cfg.kind, adapter.req, reply)]
    /\ UNCHANGED <<agentVars, callVars, histVars, vault>>

(***************************************************************************)
(* The secrets vault.  vault/vault.go is the plain vault; examples/app.go  *)
(* is the vault with the reset procedure, the ban and the permanent lock.  *)
(* Set, Get and Delete are the same in both: Lock, promptMaster, the map   *)
(* access, save, Unlock.  Failures of the terminal and of the file system  *)
(* are left out: every prompt is answered and every file access succeeds.  *)
(***************************************************************************)
MaxVaultTime == 12

\* authCacheDuration = time.Minute; the ban lasts 10 minutes; three failures
\* make a ban; the reset code may be tried three times.
AuthCacheDuration == 1
BanDuration == 10
MaxFailures == 3
MaxCodeTries == 3

VaultClients == {"cli", "rest"}
VaultKeys == {"k"}
Passwords == {"pw", "bad"}
NoSecret == ""
NoCipher == "nil"

VaultOk == "nil"
LockedErr == "vault locked permanently"
LockedNowErr == "vault locked permanently due to repeated failures"
BannedErr == "vault banned until"
ResetBannedErr == "failed to reset MasterKey: vault banned until"
DecryptErr == "failed to decrypt vault"
NotFoundErr == "key not found"

NoFile == [exists |-> FALSE, key |-> NoCipher, data |-> EmptyMap]
VaultFile(key, data) == [exists |-> TRUE, key |-> key, data |-> data]

NoClient ==
    [pc |-> "idle", op |-> "none", key |-> NoSecret, val |-> NoSecret, ret |-> VaultOk,
     out |-> NoSecret, tries |-> 0, lockedAtStart |-> FALSE]

\* New() / NewVault(): an empty map, no cipher, zero times and counters.
NewVault(variant, file) ==
    [variant |-> variant, proc |-> "init", data |-> EmptyMap, file |-> file,
     cipherKey |-> NoCipher, authed |-> FALSE, authedAt |-> 0,
     resetAttempts |-> 0, normalAttempts |-> 0, banSet |-> FALSE, bannedUntil |-> 0,
     lockedForever |-> FALSE, mu |-> "none", time |-> 0,
     cl |-> [c \in VaultClients |-> NoClient]]

NoVault == NewVault("none", NoFile)

\* time.Since(v.authedAt) < authCacheDuration && v.cipherGCM != nil
AuthCached(v) ==
    v.authed /\ v.time - v.authedAt < AuthCacheDuration /\ v.cipherKey # NoCipher

\* !v.bannedUntil.IsZero() && time.Now().Before(v.bannedUntil)
Banned(v) == v.banSet /\ v.time < v.bannedUntil

\* A lock check that never fires.
LockedCheck_Never(v) == FALSE

\* if v.lockedForever
LockedCheck(v) == v.lockedForever

\* save(): the map encrypted under the current cipher replaces the file.
Save(v) == [v EXCEPT !.file = VaultFile(v.cipherKey, v.data)]

\* load() succeeds when the cipher is the one the file was sealed with.
LoadOk(v) == v.file.exists /\ v.file.key = v.cipherKey

\* json.Unmarshal(plain, &v.data) stores the file's pairs into the map.
Loaded(v) ==
    [v EXCEPT !.data = [k \in (DOMAIN v.data) \cup (DOMAIN v.file.data) |->
                           IF k \in DOMAIN v.file.data THEN v.file.data[k] ELSE v.data[k]]]

\* The operation of c returns e (and out): the deferred Unlock runs; Execute
\* goes on to start the HTTP server and the CLI loop, or, in vault.go, ends
\* the process with log.Fatal when the authentication failed.
VaultReturn(v, c, e, out) ==
    [v EXCEPT !.mu = IF @ = c THEN "none" ELSE @,
              !.cl[c].pc = "idle", !.cl[c].ret = e, !.cl[c].out = out,
              !.proc = IF v.cl[c].op # "execute" THEN @
                       ELSE IF v.variant = "plain" /\ e # VaultOk THEN "exited"
                       ELSE "running"]

\* promptMaster returned nil: Execute is done, Set, Get and Delete go on.
Authenticated(v, c) ==
    IF v.cl[c].op = "execute" THEN VaultReturn(v, c, VaultOk, NoSecret)
    ELSE [v EXCEPT !.cl[c].pc = "body"]

\* Execute() up to its call of promptMaster: vault.go takes the mutex first,
\* examples/app.go calls promptMaster without it.
Execute ==
    /\ vault.proc = "init"
    /\ vault.cl["cli"].pc = "idle"
    /\ vault.cl["cli"].op = "none"
    /\ vault' = [vault EXCEPT !.cl["cli"] = [NoClient EXCEPT !.pc = "auth", !.op = "execute"],
                              !.mu = IF vault.variant = "plain" THEN "cli" ELSE @]
    /\ UNCHANGED <<agentVars, callVars, histVars, adapter>>

\* A call of Set, Get or Delete by the CLI loop or by an HTTP handler.
VaultCall(c, op, key, val) ==
    /\ vault.proc = "running"
    /\ vault.cl[c].pc = "idle"
    /\ vault' = [vault EXCEPT !.cl[c] = [NoClient EXCEPT !.pc = "lock", !.op = op, !.key = key,
                                                        !.val = val,
                                                        !.lockedAtStart = vault.lockedForever]]
    /\ UNCHANGED <<agentVars, callVars, histVars, adapter>>

\* A Lock that does not wait.
VaultLock_NoWait(c) ==
    /\ vault.cl[c].pc = "lock"
    /\ vault' = [vault EXCEPT !.mu = c, !.cl[c].pc = "auth"]
    /\ UNCHANGED <<agentVars, callVars, histVars, adapter>>

\* v.mu.Lock()
VaultLock(c) ==
    /\ vault.cl[c].pc = "lock"
    /\ vault.mu = "none"
    /\ vault' = [vault EXCEPT !.mu = c, !.cl[c].pc = "auth"]
    /\ UNCHANGED <<agentVars, callVars, histVars, adapter>>

\* vault.go promptMaster, up to its first prompt.
PromptMaster(c) ==
    /\ vault.variant = "plain"
    /\ vault.cl[c].pc = "auth"
    /\ vault' = IF AuthCached(vault) THEN Authenticated(vault, c)
                ELSE IF ~vault.file.exists THEN [vault EXCEPT !.cl[c].pc = "setup"]
                ELSE [vault EXCEPT !.cl[c].pc = "enter"]
    /\ UNCHANGED <<agentVars, callVars, histVars, adapter>>

\* New vault setup: the new master key is entered twice until both entries
\* agree; then the cipher is set, the empty vault saved and the time noted.
SetupNewVault(c, pw1, pw2) ==
    /\ vault.cl[c].pc = "setup"
    /\ vault' = IF pw1 # pw2 THEN vault
                ELSE Authenticated([Save([vault EXCEPT !.cipherKey = pw1])
                                      EXCEPT !.authed = TRUE, !.authedAt = vault.time], c)
    /\ UNCHANGED <<agentVars, callVars, histVars, adapter>>

\* vault.go: the master key of an existing vault is entered once; a key that
\* does not decrypt the file resets the cipher and fails the operation.
EnterMasterKey(c, pw) ==
    /\ vault.variant = "plain"
    /\ vault.cl[c].pc = "enter"
    /\ LET v == [vault EXCEPT !.cipherKey = pw]
       IN vault' = IF LoadOk(v)
                   THEN Authenticated([Loaded(v) EXCEPT !.authed = TRUE, !.authedAt = vault.time], c)
                   ELSE VaultReturn([v EXCEPT !.cipherKey = NoCipher], c, DecryptErr, NoSecret)
    /\ UNCHANGED <<agentVars, callVars, histVars, adapter>>

\* examples/app.go promptMaster, up to its first prompt: the cached
\* authentication, the permanent lock, the ban, then setup or the question.
AppPromptMaster(c) ==
    /\ vault.variant = "lockout"
    /\ vault.cl[c].pc = "auth"
    /\ vault' = IF AuthCached(vault) THEN Authenticated(vault, c)
                ELSE IF LockedCheck(vault) THEN VaultReturn(vault, c, LockedErr, NoSecret)
                ELSE IF Banned(vault) THEN VaultReturn(vault, c, BannedErr, NoSecret)
                ELSE IF ~vault.file.exists THEN [vault EXCEPT !.cl[c].pc = "setup"]
                ELSE [vault EXCEPT !.cl[c].pc = "ask"]
    /\ UNCHANGED <<agentVars, callVars, histVars, adapter>>

\* "Do you want to reset MasterKey? (y/N)"
AppAskReset(c, ans) ==
    /\ vault.cl[c].pc = "ask"
    /\ vault' = IF ans = "y" THEN [vault EXCEPT !.cl[c].pc = "code", !.cl[c].tries = 0]
                ELSE [vault EXCEPT !.cl[c].pc = "enter"]
    /\ UNCHANGED <<agentVars, callVars, histVars, adapter>>

\* resetMasterKey: one entry of the reset code; the third wrong entry bans
\* the vault and fails the operation.
AppResetCode(c, right) ==
    /\ vault.cl[c].pc = "code"
    /\ vault' = IF right THEN [vault EXCEPT !.cl[c].pc = "newkey"]
                ELSE IF vault.cl[c].tries + 1 < MaxCodeTries
                THEN [vault EXCEPT !.cl[c].tries = @ + 1]
                ELSE VaultReturn([vault EXCEPT !.cl[c].tries = @ + 1,
                                               !.resetAttempts = @ + MaxCodeTries,
                                               !.banSet = TRUE,
                                               !.bannedUntil = vault.time + BanDuration],
                                 c, ResetBannedErr, NoSecret)
    /\ UNCHANGED <<agentVars, callVars, histVars, adapter>>

\* resetMasterKey after the right code: the new master key is entered twice
\* until both entries agree; the cipher is replaced, the counters and the
\* ban are reset, the map is saved; promptMaster then notes the time.
AppResetNewKey(c, new1, new2) ==
    /\ vault.cl[c].pc = "newkey"
    /\ vault' = IF new1 # new2 THEN vault
                ELSE Authenticated([Save([vault EXCEPT !.cipherKey = new1, !.resetAttempts = 0,
                                                       !.normalAttempts = 0, !.banSet = FALSE,
                                                       !.bannedUntil = 0])
                                      EXCEPT !.authed = TRUE, !.authedAt = vault.time], c)
    /\ UNCHANGED <<agentVars, callVars, histVars, adapter>>

\* One round of the master key loop of examples/app.go.
AppEnterMasterKey(c, pw) ==
    /\ vault.variant = "lockout"
    /\ vault.cl[c].pc = "enter"
    /\ LET v == [vault EXCEPT !.cipherKey = pw]
           f == [v EXCEPT !.normalAttempts = @ + 1]
       IN vault' =
             IF LockedCheck(vault) THEN VaultReturn(vault, c, LockedErr, NoSecret)
             ELSE IF Banned(vault) THEN VaultReturn(vault, c, BannedErr, NoSecret)
             ELSE IF LoadOk(v)
             THEN Authenticated([Loaded(v) EXCEPT !.authed = TRUE, !.authedAt = vault.time,
                                                  !.normalAttempts = 0], c)
             ELSE IF f.normalAttempts < MaxFailures THEN f
             ELSE IF f.banSet /\ f.time > f.bannedUntil
             THEN VaultReturn([f EXCEPT !.lockedForever = TRUE], c, LockedNowErr, NoSecret)
             ELSE [f EXCEPT !.banSet = TRUE, !.bannedUntil = f.time + BanDuration]
    /\ UNCHANGED <<agentVars, callVars, histVars, adapter>>

\* The body of Set, Get or Delete after promptMaster, and the return.
VaultBody(c) ==
    /\ vault.cl[c].pc = "body"
    /\ LET k == vault.cl[c].key
       IN vault' =
             CASE vault.cl[c].op = "set" ->
                    VaultReturn(Save([vault EXCEPT !.data = MapPut(@, k, vault.cl[c].val)]),
                                c, VaultOk, NoSecret)
               [] vault.cl[c].op = "get" ->
                    IF k \in DOMAIN vault.data
                    THEN VaultReturn(vault, c, VaultOk, vault.data[k])
                    ELSE VaultReturn(vault, c, NotFoundErr, NoSecret)
               [] vault.cl[c].op = "delete" ->
                    VaultReturn(Save([vault EXCEPT !.data = MapRemove(@, {k})]),
                                c, VaultOk, NoSecret)
    /\ UNCHANGED <<agentVars, callVars, histVars, adapter>>

\* Time passes.
VaultTick(d) ==
    /\ vault.proc # "exited"
    /\ vault.time + d <= MaxVaultTime
    /\ vault' = [vault EXCEPT !.time = @ + d]
    /\ UNCHANGED <<agentVars, callVars, histVars, adapter>>

VaultOps == {"set", "get", "delete"}

(***************************************************************************)
(* Inputs.                                                                 *)
(***************************************************************************)
Msgs == <<[Role |-> "user", Content |-> "2+2?"]>>

Models == {NoModel, "m"}
MaxTokensValues == {0, 50}

Requests ==
    {CompletionRequest(Msgs, m, s, "0", t, "0", <<>>) :
        m \in Models, s \in StreamFlags, t \in MaxTokensValues}

\* The registries after the registration calls: alpha is registered by the
\* user, gamma by the system, beta by the system or not at all.
AlphaProviders ==
    {Provider("alpha", "user", ProviderConfig("m", t, r)) : t \in {0, 100}, r \in 0..MaxRetry}
BetaProvider == Provider("beta", "system", ProviderConfig(NoModel, 100, 1))
GammaProvider == Provider("gamma", "system", ProviderConfig("m", 0, 0))

FallbackLists ==
    {<<>>, <<"beta", "gamma">>, <<"alpha", "beta">>, <<"gamma", "gamma">>}

InitCalls ==
    /\ pc = [c \in AllCallers |-> "idle"]
    /\ calls = [c \in AllCallers |-> 0]
    /\ cancelled = [c \in AllCallers |-> FALSE]
    /\ providerName = [c \in AllCallers |-> NoName]
    /\ req0 = [c \in AllCallers |-> NoPrev.req0]
    /\ req = [c \in AllCallers |-> NoPrev.req0]
    /\ lookupKey = [c \in AllCallers |-> NoLookupKey]
    /\ name = [c \in AllCallers |-> NoName]
    /\ p = [c \in AllCallers |-> NoProvider]
    /\ cur = [c \in AllCallers |-> NoProvider]
    /\ phase = [c \in AllCallers |-> "none"]
    /\ attempts = [c \in AllCallers |-> 0]
    /\ i = [c \in AllCallers |-> 0]
    /\ respChan = [c \in AllCallers |-> NilChan]
    /\ err = [c \in AllCallers |-> NoErr]
    /\ fbIdx = [c \in AllCallers |-> 0]
    /\ fbList = [c \in AllCallers |-> <<>>]
    /\ resp = [c \in AllCallers |-> NoResp]
    /\ result = [c \in AllCallers |-> NoResult]
    /\ invoked = [b \in Names \cup {NoName} |-> 0]
    /\ trace = [c \in AllCallers |-> <<>>]
    /\ m0 = [c \in AllCallers |-> [metrics |-> EmptyMap, at |-> 0]]
    /\ mRun = [c \in AllCallers |-> ProviderMetrics(0, 0, 0)]
    /\ stored = [c \in AllCallers |-> NoStore]
    /\ prev = [c \in AllCallers |-> NoPrev]

\* NewAgent: empty cache and metrics, the sweeper waiting for its ticker.
InitAgent ==
    /\ cache = EmptyMap
    /\ cacheLock = [w |-> "none", r |-> {}]
    /\ metrics = EmptyMap
    /\ now = 0
    /\ sweeper = [pc |-> "wait", now |-> 0]
    /\ registrar = NoRegistrar
    /\ adapter = NoAdapter
    /\ vault = NoVault

\* One caller, one Complete call, after the registrations.
Init ==
    /\ InitAgent
    /\ InitCalls
    /\ CacheTTL = 1
    /\ \E a \in AlphaProviders : userProviders = [x \in {"alpha"} |-> a]
    /\ systemProviders \in {[x \in {"gamma"} |-> GammaProvider],
                            [x \in {"beta", "gamma"} |-> IF x = "beta" THEN BetaProvider ELSE GammaProvider]}
    /\ DefaultProvider = "gamma"
    /\ FallbackProviders \in FallbackLists

Outcomes == Shapes \cup {"error"}

Next ==
    \/ \E pn \in Names \cup {NoName}, r \in Requests : Call("c1", pn, r, 1)
    \/ Step("c1", Outcomes, {0, MaxLatency})

Spec == Init /\ [][Next]_vars

\* One caller issuing two Complete calls, one after the other, with the clock
\* and the sweeper running: beta is registered by the user, alpha (without a
\* default model) and gamma by the system, gamma is the fallback, no default
\* backend was set, and zeta is a name nobody registered.
SeqBetaProviders ==
    {Provider("beta", "user", ProviderConfig("m", t, 0)) : t \in {0, 100}}

SeqAlphaProvider == Provider("alpha", "system", ProviderConfig(NoModel, 100, 0))

SeqNames == {"beta", "alpha", "zeta", NoName}

SeqRequests ==
    {CompletionRequest(Msgs, NoModel, s, "0", t, "0", <<>>) :
        s \in {"nil", "false"}, t \in MaxTokensValues} \
    {CompletionRequest(Msgs, NoModel, "nil", "0", 50, "0", <<>>)}

InitSeq ==
    /\ InitAgent
    /\ InitCalls
    /\ CacheTTL = 1
    /\ \E b \in SeqBetaProviders : userProviders = [x \in {"beta"} |-> b]
    /\ systemProviders = [x \in {"alpha", "gamma"} |-> IF x = "alpha" THEN SeqAlphaProvider ELSE GammaProvider]
    /\ DefaultProvider = NoName
    /\ FallbackProviders = <<"gamma">>

NextSeq ==
    \/ \E pn \in SeqNames, r \in SeqRequests : Call("c1", pn, r, 2)
    \/ Step("c1", {"one", "inband", "error"}, {1})
    \/ Tick
    \/ SweepTick
    \/ SweepLock
    \/ SweepPass

SpecSeq == InitSeq /\ [][NextSeq]_vars

\* Two callers, one Complete call each, running concurrently.
ConcRequests ==
    {CompletionRequest(Msgs, NoModel, "false", "0", t, "0", <<>>) : t \in {0}}

InitConc ==
    /\ InitAgent
    /\ InitCalls
    /\ CacheTTL = 1
    /\ userProviders = [x \in {"alpha"} |-> Provider("alpha", "user", ProviderConfig("m", 100, 1))]
    /\ systemProviders = [x \in {"gamma"} |-> GammaProvider]
    /\ DefaultProvider = "alpha"
    /\ FallbackProviders = <<"gamma">>

NextConc ==
    \E c \in AllCallers :
        \/ \E r \in ConcRequests : Call(c, "alpha", r, 1)
        \/ Step(c, {"one", "error"}, {0, MaxLatency})

SpecConc == InitConc /\ [][NextConc]_vars

\* One caller, one Complete call whose context may be cancelled at any point
\* of the call.
InitCancel ==
    /\ InitAgent
    /\ InitCalls
    /\ CacheTTL = 1
    /\ userProviders = [x \in {"alpha"} |-> Provider("alpha", "user", ProviderConfig("m", 100, MaxRetry))]
    /\ systemProviders = [x \in {"gamma"} |-> GammaProvider]
    /\ DefaultProvider = "alpha"
    /\ FallbackProviders = <<"gamma">>

NextCancel ==
    \/ \E r \in ConcRequests : Call("c1", NoName, r, 1)
    \/ Cancel("c1")
    \/ Step("c1", {"one", "inband", "error"}, {0, MaxLatency})

SpecCancel == InitCancel /\ [][NextCancel]_vars

\* The agent is configured, then one caller issues a Complete call, then the
\* agent may be configured again: alpha can be registered by the user and by
\* the system, gamma by the system, zeta by nobody.
RegUserProviders == {Provider("alpha", "user", ProviderConfig("m", 100, 0))}

RegSystemProviders ==
    {Provider("alpha", "system", ProviderConfig("m", 100, 1)),
     Provider("gamma", "system", ProviderConfig("m", 100, 0))}

RegNames == {"alpha", "gamma", "zeta"}

RegFallbackLists == {<<"alpha">>, <<"gamma", "alpha">>}

InitReg ==
    /\ InitAgent
    /\ InitCalls
    /\ CacheTTL = 1
    /\ userProviders = EmptyMap
    /\ systemProviders = EmptyMap
    /\ DefaultProvider = NoName
    /\ FallbackProviders = <<>>

\* The caller is outside Complete.
Quiescent == \A c \in AllCallers : pc[c] \in {"idle", "done"}

NextReg ==
    \/ Quiescent /\ \E pv \in RegUserProviders : RegisterProvidersFromUser(pv)
    \/ Quiescent /\ \E pv \in RegSystemProviders : RegisterProvidersFromSystem(pv)
    \/ Quiescent /\ \E nm \in RegNames : SetDefault(nm)
    \/ Quiescent /\ \E names \in RegFallbackLists : RegisterFallbackProviders(names)
    \/ RegistryWrite
    \/ RegistryReturn
    \/ registrar.pc = "idle" /\ \E pn \in RegNames \cup {NoName}, r \in ConcRequests : Call("c1", pn, r, 1)
    \/ Step("c1", {"one", "error"}, {MaxLatency})

SpecReg == InitReg /\ [][NextReg]_vars

\* One caller inside Complete while another goroutine configures the agent.
InitRace ==
    /\ InitAgent
    /\ InitCalls
    /\ CacheTTL = 1
    /\ userProviders = [x \in {"alpha"} |-> Provider("alpha", "user", ProviderConfig("m", 100, 0))]
    /\ systemProviders = [x \in {"gamma"} |-> GammaProvider]
    /\ DefaultProvider = "alpha"
    /\ FallbackProviders = <<"gamma">>

NextRace ==
    \/ \E pv \in RegUserProviders : RegisterProvidersFromUser(pv)
    \/ \E pv \in RegSystemProviders : RegisterProvidersFromSystem(pv)
    \/ \E nm \in RegNames : SetDefault(nm)
    \/ \E names \in RegFallbackLists : RegisterFallbackProviders(names)
    \/ RegistryWrite
    \/ RegistryReturn
    \/ Fatal("c1")
    \/ \E pn \in {"alpha", NoName}, r \in ConcRequests : Call("c1", pn, r, 1)
    \/ Step("c1", {"one", "error"}, {MaxLatency})

SpecRace == InitRace /\ [][NextRace]_vars

\* getCacheKey applied to two requests drawn from all combinations of the
\* fields, among them values json.Marshal rejects.
KeyRequests ==
    {CompletionRequest(Msgs, m, s, tp, t, "0", st) :
        m \in Models, s \in StreamFlags, tp \in Floats, t \in MaxTokensValues,
        st \in {<<>>, <<"END">>}}

InitKey ==
    /\ InitAgent
    /\ pc = [c \in AllCallers |-> "idle"]
    /\ calls = [c \in AllCallers |-> 0]
    /\ cancelled = [c \in AllCallers |-> FALSE]
    /\ providerName = [c \in AllCallers |-> NoName]
    /\ req0 \in [AllCallers -> KeyRequests]
    /\ req = req0
    /\ lookupKey = [c \in AllCallers |-> NoLookupKey]
    /\ name = [c \in AllCallers |-> NoName]
    /\ p = [c \in AllCallers |-> NoProvider]
    /\ cur = [c \in AllCallers |-> NoProvider]
    /\ phase = [c \in AllCallers |-> "none"]
    /\ attempts = [c \in AllCallers |-> 0]
    /\ i = [c \in AllCallers |-> 0]
    /\ respChan = [c \in AllCallers |-> NilChan]
    /\ err = [c \in AllCallers |-> NoErr]
    /\ fbIdx = [c \in AllCallers |-> 0]
    /\ fbList = [c \in AllCallers |-> <<>>]
    /\ resp = [c \in AllCallers |-> NoResp]
    /\ result = [c \in AllCallers |-> NoResult]
    /\ invoked = [b \in Names \cup {NoName} |-> 0]
    /\ trace = [c \in AllCallers |-> <<>>]
    /\ m0 = [c \in AllCallers |-> [metrics |-> EmptyMap, at |-> 0]]
    /\ mRun = [c \in AllCallers |-> ProviderMetrics(0, 0, 0)]
    /\ stored = [c \in AllCallers |-> NoStore]
    /\ prev = [c \in AllCallers |-> NoPrev]
    /\ CacheTTL = 1
    /\ userProviders = EmptyMap
    /\ systemProviders = EmptyMap
    /\ DefaultProvider = NoName
    /\ FallbackProviders = <<>>

NextKey == \E c \in AllCallers : GetCacheKey(c)

SpecKey == InitKey /\ [][NextKey]_vars

(***************************************************************************)
(* Properties.                                                             *)
(***************************************************************************)
Last(t) == t[Len(t)]

\* Invocations the current call of c made in the tryProvider run of slot s
\* (0: the primary, k >= 1: the k-th fallback name).
SlotCount(c, s) == Cardinality({j \in DOMAIN trace[c] : trace[c][j].slot = s})

\* Invocations the current call of c made of backend b.
NameCount(c, b) == Cardinality({j \in DOMAIN trace[c] : trace[c][j].b = b})

\* The tryProvider run of slot s has returned.
RunOver(c, s) ==
    \/ s < fbIdx[c]
    \/ /\ s = fbIdx[c]
       /\ pc[c] \in {"after_try", "cache_store", "store_lock", "store_write", "done", "blocked"}

\* The call of c got its response from a backend: its last invocation succeeded.
Succeeded(c) == trace[c] # <<>> /\ Last(trace[c]).ok

\* C1: a request with stream explicitly false, issued twice within the cache
\* TTL against the same backend with an error-free first response: the first
\* call stores the result, the second returns the stored content without
\* invoking a backend and without changing the metrics.
C1_RepeatServedFromCache ==
    \A c \in AllCallers :
        /\ (/\ pc[c] = "done"
            /\ req0[c].Stream = "false"
            /\ result[c].err = NoErr /\ Succeeded(c)
            /\ resp[c].ok /\ resp[c].v.Err = NoErr)
           => /\ stored[c].done
              /\ stored[c].key = getCacheKey(req0[c]).key
              /\ stored[c].content = resp[c].v.Content
        /\ (/\ pc[c] = "done"
            /\ prev[c].valid
            /\ req0[c] = prev[c].req0 /\ providerName[c] = prev[c].providerName
            /\ req0[c].Stream = "false"
            /\ prev[c].err = NoErr /\ prev[c].ninv > 0
            /\ prev[c].resp.ok /\ prev[c].resp.v.Err = NoErr
            /\ now < prev[c].at + CacheTTL)
           => /\ trace[c] = <<>>
              /\ result[c] = [chan |-> Chan(<<CompletionResponse(prev[c].resp.v.Content, NoErr)>>),
                              err |-> NoErr]
              /\ metrics = m0[c].metrics

\* C2: the key a response is stored under is the key computed at the cache
\* lookup from the caller-supplied request; defaulting never changes it.
C2_StoreKeyIsLookupKey ==
    \A c \in AllCallers :
        stored[c].done =>
            /\ lookupKey[c].computed
            /\ stored[c].key = lookupKey[c].key
            /\ stored[c].key = getCacheKey(req0[c]).key

\* C3: a request with stream unset and max tokens unset is non-streaming for
\* the whole call: on success the first element is drained, cached when it is
\* error-free, and a one-element stream is returned.
C3_UnsetStreamStaysNonStreaming ==
    \A c \in AllCallers :
        (/\ pc[c] = "done"
         /\ req0[c].Stream = "nil" /\ req0[c].MaxTokens = 0
         /\ Succeeded(c))
        => /\ result[c].err = NoErr
           /\ result[c].chan = Chan(<<Receive(Last(trace[c]).chan).v>>)
           /\ (Receive(Last(trace[c]).chan).ok /\ Receive(Last(trace[c]).chan).v.Err = NoErr
                 => stored[c].done /\ stored[c].content = Receive(Last(trace[c]).chan).v.Content)

\* C4: when the primary exhausts its retry budget and the fallback list is
\* empty, Complete returns the last attempt's error and no stream.
C4_PrimaryFailureReturned ==
    \A c \in AllCallers :
        (/\ pc[c] \in {"done", "blocked"}
         /\ phase[c] = "primary" /\ err[c] # NoErr
         /\ Len(FallbackProviders) = 0)
        => /\ pc[c] = "done"
           /\ result[c].err = err[c]
           /\ result[c].err = BackendErr(Last(trace[c]).b, Last(trace[c]).n)
           /\ result[c].chan.nil

C6_StopsAtFirstSuccess ==
    \A c \in AllCallers :
        /\ \A j \in DOMAIN trace[c] : trace[c][j].ok => j = Len(trace[c])
        /\ (pc[c] = "after_try" /\ err[c] = NoErr)
              => LET k == SlotCount(c, fbIdx[c])
                     b == cur[c].Name
                 IN /\ k >= 1 /\ k <= cur[c].cfg.RetryCount + 1
                    /\ Last(trace[c]).ok /\ Last(trace[c]).slot = fbIdx[c]
                    /\ Last(trace[c]).b = b
                    /\ respChan[c] = Last(trace[c]).chan
                    /\ ~respChan[c].nil
                    /\ metrics[b].FailureCount = mRun[c].FailureCount + (k - 1)
                    /\ metrics[b].SuccessCount = mRun[c].SuccessCount + 1

C6_Witness ==
    \E c \in AllCallers :
        /\ pc[c] = "after_try" /\ err[c] = NoErr
        /\ SlotCount(c, fbIdx[c]) = MaxRetry + 1
        /\ metrics[cur[c].Name].FailureCount = MaxRetry
        /\ metrics[cur[c].Name].SuccessCount = 1

\* Attempts on backend b whose backend call has returned and whose outcome
\* the caller has not yet recorded.
InFlight(b) == Cardinality({c \in AllCallers : pc[c] = "record" /\ cur[c].Name = b})

C7_CountsAttempts ==
    \A b \in Names :
        IF b \in DOMAIN metrics
        THEN metrics[b].SuccessCount + metrics[b].FailureCount = invoked[b] - InFlight(b)
        ELSE invoked[b] = 0

C7_Monotone ==
    \A b \in DOMAIN metrics :
        /\ b \in DOMAIN metrics'
        /\ metrics'[b].SuccessCount >= metrics[b].SuccessCount
        /\ metrics'[b].FailureCount >= metrics[b].FailureCount
        /\ metrics'[b].TotalLatency >= metrics[b].TotalLatency

C8_PrimaryNeverFallback ==
    \A c \in AllCallers : \A j \in DOMAIN trace[c] :
        /\ trace[c][j].slot = 0 => trace[c][j].b = name[c]
        /\ trace[c][j].slot >= 1 => trace[c][j].b # name[c]

C8_Witness ==
    \E c \in AllCallers :
        /\ fbIdx[c] > 1 /\ fbList[c][1] = name[c]
        /\ \E j \in DOMAIN trace[c] : trace[c][j].slot > 1

\* The stream Complete returns when its last invocation succeeded.
ReturnedFrom(c) ==
    IF StreamValue(req[c]) THEN Last(trace[c]).chan
    ELSE Chan(<<Receive(Last(trace[c]).chan).v>>)

\* C9: fallback candidates are attempted in the configured order and the
\* chain stops at the first candidate whose run succeeds: the result is that
\* candidate's response and no later candidate is invoked.
C9_FallbackOrder ==
    \A c \in AllCallers :
        /\ \A j, k \in DOMAIN trace[c] : j <= k => trace[c][j].slot <= trace[c][k].slot
        /\ \A j \in DOMAIN trace[c] :
              /\ trace[c][j].slot >= 1 => trace[c][j].b = fbList[c][trace[c][j].slot]
              /\ trace[c][j].ok => j = Len(trace[c])
        /\ (pc[c] = "done" /\ Succeeded(c) /\ Last(trace[c]).slot >= 1)
              => /\ result[c].err = NoErr
                 /\ result[c].chan = ReturnedFrom(c)

C9_Witness ==
    \E c \in AllCallers :
        /\ pc[c] = "done" /\ Succeeded(c)
        /\ Last(trace[c]).slot = 1 /\ Len(fbList[c]) > 1
        /\ ~SkipCandidate(name[c], fbList[c][2], req[c])

\* C10: a fallback name registered in neither registry is passed over without
\* an invocation and without a metrics record; metrics records exist only for
\* backends that were attempted.
C10_MetricsOnlyForAttempted ==
    \A b \in Names \cup {NoName} :
        /\ ~Registered(b) => invoked[b] = 0 /\ b \notin DOMAIN metrics
        /\ b \in DOMAIN metrics =>
              \/ invoked[b] > 0
              \/ \E c \in AllCallers : pc[c] = "invoke" /\ cur[c].Name = b

C10_Witness ==
    \E c \in AllCallers :
        /\ pc[c] = "done" /\ Succeeded(c)
        /\ Last(trace[c]).slot = 2
        /\ ~Registered(fbList[c][1])
        /\ fbList[c][1] \notin DOMAIN metrics

\* C11: when the primary fails, the fallback list is non-empty and no
\* fallback candidate succeeds (each one fails or is passed over), Complete
\* returns no stream and an all-providers-failed error that carries the error
\* of the last invocation the call made; that error is returned in no other
\* case.
C11_AllFailedCarriesLastError ==
    \A c \in AllCallers :
        /\ (/\ pc[c] \in {"done", "blocked"}
            /\ trace[c] # <<>> /\ ~Last(trace[c]).ok
            /\ Len(FallbackProviders) > 0)
           => /\ pc[c] = "done"
              /\ result[c].chan.nil
              /\ result[c].err.kind = "all providers failed"
              /\ result[c].err.b = Last(trace[c]).b
              /\ result[c].err.n = Last(trace[c]).n
        /\ (pc[c] = "done" /\ result[c].err.kind = "all providers failed")
           => /\ Len(FallbackProviders) > 0
              /\ trace[c] # <<>>
              /\ \A j \in DOMAIN trace[c] : ~trace[c][j].ok

\* All failed after a fallback candidate was passed over and a later one was
\* invoked and failed.
C11_Witness ==
    \E c \in AllCallers :
        /\ pc[c] = "done" /\ result[c].err.kind = "all providers failed"
        /\ Last(trace[c]).slot = 2 /\ Last(trace[c]).b # trace[c][1].b
        /\ SlotCount(c, 1) = 0
        /\ result[c].err.n = invoked[Last(trace[c]).b]

\* C12: for a non-streaming request (the caller's request has effective
\* stream false) that a backend answers with a stream, the caller observes
\* exactly one response element, however many elements that stream yields.
C12_NonStreamingOneElement ==
    \A c \in AllCallers :
        (/\ pc[c] = "done"
         /\ ~StreamValue(req0[c])
         /\ Succeeded(c))
        => /\ result[c].err = NoErr
           /\ ~result[c].chan.nil
           /\ Len(result[c].chan.elems) = 1

\* C13: a request with stream unset and max tokens set by the caller (> 0) is
\* streaming: its call computes no lookup key, never reads or writes the
\* cache, drains nothing, and on success returns the backend's own stream.
C13_MaxTokensSetMeansStreaming ==
    \A c \in AllCallers :
        (calls[c] > 0 /\ req0[c].Stream = "nil" /\ req0[c].MaxTokens > 0)
        => /\ ~lookupKey[c].computed
           /\ pc[c] \notin {"cache_read", "store_lock", "store_write", "blocked"}
           /\ c \notin cacheLock.r /\ cacheLock.w # c
           /\ ~stored[c].done
           /\ resp[c] = NoResp
           /\ (pc[c] = "done" /\ Succeeded(c))
                 => /\ result[c].err = NoErr
                    /\ result[c].chan = Last(trace[c]).chan

\* Such a call succeeded with an error-free one-element stream, which a
\* non-streaming call would have cached.
C13_Witness ==
    \E c \in AllCallers :
        /\ pc[c] = "done" /\ Succeeded(c)
        /\ req0[c].Stream = "nil" /\ req0[c].MaxTokens > 0
        /\ Len(result[c].chan.elems) = 1 /\ result[c].chan.elems[1].Err = NoErr
        /\ cache = EmptyMap

\* The caller-supplied request of c has effective stream false: stream
\* explicitly false, or stream unset and max tokens unset.
CallerNonStreaming(c) ==
    \/ req0[c].Stream = "false"
    \/ (req0[c].Stream = "nil" /\ req0[c].MaxTokens = 0)

\* C14: every cache entry was written by a Complete call whose caller-supplied
\* request had effective stream false; a call whose caller-supplied request
\* has effective stream true never reaches the cache write.
C14_EntriesFromNonStreamingCalls ==
    /\ \A c \in AllCallers :
          (pc[c] \in {"store_lock", "store_write"} \/ stored[c].done) => CallerNonStreaming(c)
    /\ \A k \in DOMAIN cache :
          \E c \in AllCallers :
              /\ stored[c].done /\ stored[c].key = k
              /\ cache[k].content = stored[c].content
              /\ CallerNonStreaming(c)

\* An entry written by a call whose request left stream and max tokens unset.
C14_Witness ==
    \E c \in AllCallers :
        /\ pc[c] = "done" /\ stored[c].done
        /\ stored[c].key \in DOMAIN cache
        /\ req0[c].Stream = "nil" /\ req0[c].MaxTokens = 0

\* The lookup step of c: the map read under the read lock is taken.
LookupStep(c) == pc[c] = "cache_read" /\ pc'[c] # "cache_read"

\* The lookup of c queries the key under which the caller's previous call
\* stored an entry.
QueriesPrevEntry(c) == prev[c].stored.done /\ lookupKey[c].key = prev[c].stored.key

C15_LookupStep ==
    \A c \in AllCallers :
        (LookupStep(c) /\ QueriesPrevEntry(c))
        => IF now < prev[c].stored.at + CacheTTL
           THEN /\ pc'[c] = "done"
                /\ result'[c] = [chan |-> Chan(<<CompletionResponse(prev[c].stored.content, NoErr)>>),
                                 err |-> NoErr]
           ELSE /\ pc'[c] = "resolve"
                /\ result'[c] = NoResult

\* C15: an entry stored at time T with TTL D is returned by every lookup of
\* its key at a time T' < T+D and is absent for every lookup at T' >= T+D,
\* whatever the sweeper has done in between.
C15_EntryLivesForTTL == [][C15_LookupStep]_vars

\* The second call was served the entry the first call stored.
C15_Witness ==
    \E c \in AllCallers :
        /\ pc[c] = "done" /\ QueriesPrevEntry(c)
        /\ trace[c] = <<>>
        /\ result[c] = [chan |-> Chan(<<CompletionResponse(prev[c].stored.content, NoErr)>>),
                        err |-> NoErr]

\* Every call whose caller-supplied request is non-streaming performs the
\* lookup with the key of that request, before anything else.
C16_LooksUpFirst ==
    \A c \in AllCallers :
        /\ (calls[c] > 0 /\ pc[c] # "lookup" /\ CallerNonStreaming(c))
              => lookupKey[c].computed /\ lookupKey[c].key = getCacheKey(req0[c]).key
        /\ pc[c] \in {"lookup", "cache_read"}
              => trace[c] = <<>> /\ metrics = m0[c].metrics /\ name[c] = NoName

\* A lookup that finds an unexpired entry returns its content, whatever the
\* backend name, without an invocation and with cache and metrics unchanged.
C16_HitStep ==
    \A c \in AllCallers :
        (/\ LookupStep(c)
         /\ lookupKey[c].key \in DOMAIN cache
         /\ cache[lookupKey[c].key].expiresAt > now)
        => /\ pc'[c] = "done"
           /\ result'[c] = [chan |-> Chan(<<CompletionResponse(cache[lookupKey[c].key].content, NoErr)>>),
                            err |-> NoErr]
           /\ invoked' = invoked /\ trace'[c] = <<>>
           /\ metrics' = metrics /\ cache' = cache

\* C16: a cache hit is backend-agnostic: when the cache holds an unexpired
\* entry under the key of a non-streaming request, Complete returns a
\* one-element stream with that content for any backend name, registered or
\* not, without invoking a backend and without changing the metrics.
C16_HitIsBackendAgnostic == [](C16_LooksUpFirst) /\ [][C16_HitStep]_vars

\* A call naming the unregistered zeta was served what a backend produced for
\* the previous call, which named beta.
C16_Witness ==
    \E c \in AllCallers :
        /\ pc[c] = "done" /\ providerName[c] = "zeta" /\ ~Registered("zeta")
        /\ prev[c].providerName = "beta" /\ QueriesPrevEntry(c)
        /\ trace[c] = <<>> /\ metrics = m0[c].metrics
        /\ result[c] = [chan |-> Chan(<<CompletionResponse(prev[c].stored.content, NoErr)>>),
                        err |-> NoErr]
        /\ prev[c].stored.content.b \in {"beta", "gamma"}

\* The backend name the call of c resolves: the explicit argument, else the
\* configured default.
EffectiveName(c) == IF providerName[c] = NoName THEN DefaultProvider ELSE providerName[c]

\* The name is absent from both registries.
Absent(nm) == nm \notin DOMAIN userProviders /\ nm \notin DOMAIN systemProviders

\* The call of c has left the cache lookup and the backend resolution.
PastResolution(c) == pc[c] \notin {"idle", "lookup", "cache_read", "resolve"}

\* C17 (as stated): whenever the effective backend name is absent from both
\* registries, Complete fails with the provider-not-registered error, with no
\* invocation and cache and metrics unchanged.
C17_UnregisteredAlwaysFails ==
    \A c \in AllCallers :
        (PastResolution(c) /\ Absent(EffectiveName(c)))
        => /\ pc[c] = "done"
           /\ result[c] = [chan |-> NilChan, err |-> NotRegisteredErr(EffectiveName(c))]
           /\ trace[c] = <<>> /\ metrics = m0[c].metrics /\ ~stored[c].done

\* C17 (amended): when the effective backend name is absent from both
\* registries, Complete invokes no backend and leaves cache and metrics
\* unchanged; it fails with the provider-not-registered error unless the
\* cache lookup, which comes first, served a non-streaming request from the
\* cache.
C17_UnregisteredFailsUnlessCached ==
    \A c \in AllCallers :
        (PastResolution(c) /\ Absent(EffectiveName(c)))
        => /\ pc[c] = "done"
           /\ trace[c] = <<>> /\ metrics = m0[c].metrics /\ ~stored[c].done
           /\ \/ result[c] = [chan |-> NilChan, err |-> NotRegisteredErr(EffectiveName(c))]
              \/ /\ CallerNonStreaming(c) /\ lookupKey[c].computed
                 /\ result[c].err = NoErr /\ ~result[c].chan.nil
                 /\ Len(result[c].chan.elems) = 1
                 /\ result[c].chan.elems[1].Err = NoErr

\* No default was set and no name given: the call failed, although the
\* previous call had stored an entry.
C17_Witness ==
    \E c \in AllCallers :
        /\ pc[c] = "done" /\ providerName[c] = NoName /\ DefaultProvider = NoName
        /\ result[c] = [chan |-> NilChan, err |-> NotRegisteredErr(NoName)]
        /\ prev[c].stored.done

\* The call of c names a registered primary without a default model and its
\* request names no model.
NoModelCase(c) ==
    /\ ~Absent(EffectiveName(c))
    /\ LookupProvider(EffectiveName(c)).cfg.DefaultModel = NoModel
    /\ req0[c].Model = NoModel

\* C18 (as stated): whenever the request's model is empty and the primary's
\* default model is empty, Complete fails with the configuration error, with
\* no invocation, no metrics update and no fallback candidate tried.
C18_NoModelAlwaysFails ==
    \A c \in AllCallers :
        (PastResolution(c) /\ NoModelCase(c))
        => /\ pc[c] = "done"
           /\ result[c] = [chan |-> NilChan, err |-> NoModelErr]
           /\ trace[c] = <<>> /\ metrics = m0[c].metrics /\ fbIdx[c] = 0

\* C18 (amended): when the request's model is empty and the primary's default
\* model is empty, Complete invokes no backend, updates no metrics and tries
\* no fallback candidate; it fails with the configuration error unless the
\* cache lookup, which comes first, served a non-streaming request from the
\* cache.
C18_NoModelFailsUnlessCached ==
    \A c \in AllCallers :
        (PastResolution(c) /\ NoModelCase(c))
        => /\ pc[c] = "done"
           /\ trace[c] = <<>> /\ metrics = m0[c].metrics /\ fbIdx[c] = 0
           /\ ~stored[c].done
           /\ \/ result[c] = [chan |-> NilChan, err |-> NoModelErr]
              \/ /\ CallerNonStreaming(c) /\ lookupKey[c].computed
                 /\ p[c] = NoProvider
                 /\ result[c].err = NoErr /\ ~result[c].chan.nil
                 /\ Len(result[c].chan.elems) = 1
                 /\ result[c].chan.elems[1].Err = NoErr

\* The call on alpha failed with the configuration error although a fallback
\* with a default model is configured and the previous call stored an entry.
C18_Witness ==
    \E c \in AllCallers :
        /\ pc[c] = "done" /\ providerName[c] = "alpha"
        /\ result[c] = [chan |-> NilChan, err |-> NoModelErr]
        /\ p[c].Name = "alpha"
        /\ Len(FallbackProviders) > 0 /\ prev[c].stored.done

\* No further invocation is started for a call that has made an attempt and
\* whose context is cancelled.
C19_CancelledStep ==
    \A c \in AllCallers :
        (cancelled[c] /\ trace[c] # <<>>)
        => invoked' = invoked /\ Len(trace'[c]) <= Len(trace[c])

\* C19: the retry loop honors cancellation: once the caller's context is
\* cancelled, no further attempt is started, neither a retry of the primary
\* nor an attempt on a fallback candidate.
C19_NoAttemptAfterCancel == [][C19_CancelledStep]_vars

\* The first element of the stream the last invocation of c returned.
FirstElement(c) == Head(Last(trace[c]).chan.elems)

\* C20: when the first element of the backend's stream for a non-streaming
\* request carries an error, the caller gets exactly that element, unchanged,
\* and nothing is written to the cache; the cache write is reached only after
\* a drain that yielded an error-free element, whose content is what is
\* stored.
C20_ErrorElementNotCached ==
    \A c \in AllCallers :
        /\ (/\ pc[c] = "done" /\ CallerNonStreaming(c) /\ Succeeded(c)
            /\ Last(trace[c]).chan.elems # <<>>
            /\ FirstElement(c).Err # NoErr)
           => /\ result[c] = [chan |-> Chan(<<FirstElement(c)>>), err |-> NoErr]
              /\ ~stored[c].done
              /\ cache = EmptyMap
        /\ (pc[c] \in {"store_lock", "store_write"} \/ stored[c].done)
           => /\ Succeeded(c)
              /\ resp[c].ok /\ resp[c].v.Err = NoErr
              /\ resp[c].v = FirstElement(c)
              /\ stored[c].done => stored[c].content = resp[c].v.Content

\* A drained element with an in-band error was returned and nothing cached.
C20_Witness ==
    \E c \in AllCallers :
        /\ pc[c] = "done" /\ req0[c].Stream = "false"
        /\ resp[c].ok /\ resp[c].v.Err.kind = "inband"
        /\ result[c].chan.elems = <<resp[c].v>>
        /\ ~stored[c].done /\ cache = EmptyMap

\* The caller-supplied request of c has effective stream true: stream
\* explicitly true, or stream unset and max tokens set.
CallerStreaming(c) ==
    \/ req0[c].Stream = "true"
    \/ (req0[c].Stream = "nil" /\ req0[c].MaxTokens > 0)

\* C21: for a request with effective stream true whose last invocation
\* succeeded, Complete returns that backend's own stream: the same elements
\* in the same order, none received by Complete, and the cache is unchanged.
C21_StreamingReturnsBackendStream ==
    \A c \in AllCallers :
        (calls[c] > 0 /\ CallerStreaming(c))
        => /\ resp[c] = NoResp
           /\ ~stored[c].done /\ cache = EmptyMap
           /\ (pc[c] \in {"cache_store", "done"} /\ Succeeded(c))
                 => respChan[c] = Last(trace[c]).chan
           /\ (pc[c] = "done" /\ Succeeded(c))
                 => /\ result[c].err = NoErr
                    /\ result[c].chan = Last(trace[c]).chan

\* A streaming call returned a fallback candidate's three-element stream.
C21_Witness ==
    \E c \in AllCallers :
        /\ pc[c] = "done" /\ req0[c].Stream = "true" /\ Succeeded(c)
        /\ Last(trace[c]).slot >= 1
        /\ Len(result[c].chan.elems) = 3
        /\ result[c].chan.elems = BackendStream(Last(trace[c]).b, Last(trace[c]).n, "three")

\* The step of c invokes a backend.
InvokeStep(c) == Len(trace'[c]) = Len(trace[c]) + 1

\* Every invocation of a name the user registered is of the user-registered
\* backend, as primary and as fallback candidate.
C22_InvokeStep ==
    \A c \in AllCallers :
        InvokeStep(c) =>
            LET e == Last(trace'[c])
            IN e.b \in DOMAIN userProviders
                  => /\ e.tier = "user"
                     /\ cur[c] = userProviders[e.b]
                     /\ e.retry = userProviders[e.b].cfg.RetryCount

\* C22: name resolution prefers the user registry: when a name is registered
\* in both registries, Complete invokes the user-registered backend, as
\* primary and as fallback candidate, and never the system-registered one.
C22_UserRegistryPreferred == [][C22_InvokeStep]_vars

\* alpha is in both registries and its user registration was invoked as a
\* fallback candidate.
C22_Witness ==
    \E c \in AllCallers :
        /\ pc[c] = "record" /\ Last(trace[c]).slot >= 1
        /\ Last(trace[c]).b = "alpha" /\ Last(trace[c]).tier = "user"
        /\ "alpha" \in DOMAIN userProviders /\ "alpha" \in DOMAIN systemProviders
        /\ systemProviders["alpha"] # userProviders["alpha"]

\* The two requests agree on the six cached fields.
SameCachedFields(r1, r2) ==
    /\ r1.Messages = r2.Messages /\ r1.Model = r2.Model
    /\ r1.Temperature = r2.Temperature /\ r1.MaxTokens = r2.MaxTokens
    /\ r1.TopP = r2.TopP /\ r1.Stop = r2.Stop

\* C23: the cache key is a function of messages, model, temperature, max
\* tokens, top-p and stop only: two requests that agree on these six fields
\* get the same key (or both the same error), whatever their stream flags.
C23_KeyIgnoresStream ==
    \A c1, c2 \in AllCallers :
        (/\ pc[c1] = "done" /\ pc[c2] = "done"
         /\ SameCachedFields(req0[c1], req0[c2]))
        => /\ lookupKey[c1].key = lookupKey[c2].key
           /\ err[c1] = err[c2]

\* Two requests that differ only in the stream flag (explicitly true, unset)
\* got the same key.
C23_Witness ==
    /\ pc["c1"] = "done" /\ pc["c2"] = "done"
    /\ SameCachedFields(req0["c1"], req0["c2"])
    /\ req0["c1"].Stream = "true" /\ req0["c2"].Stream = "nil"
    /\ req0["c1"].MaxTokens > 0 /\ req0["c1"].Stop # <<>>
    /\ err["c1"] = NoErr
    /\ lookupKey["c1"].key = lookupKey["c2"].key

\* C24: Complete called with an empty backend name resolves the configured
\* default backend, and with a non-empty name resolves that backend whatever
\* the configured default: the resolved name is the primary, and every
\* attempt of the primary run is made on it.
C24_DefaultOnlyForEmptyName ==
    \A c \in AllCallers :
        (pc[c] \notin {"idle", "done"} /\ PastResolution(c))
        => LET expected == IF providerName[c] = NoName THEN DefaultProvider ELSE providerName[c]
           IN /\ name[c] = expected
              /\ p[c].Name = expected
              /\ \A j \in DOMAIN trace[c] : trace[c][j].slot = 0 => trace[c][j].b = expected

\* gamma was named and invoked while alpha is the configured default.
C24_Witness ==
    \E c \in AllCallers :
        /\ pc[c] = "record" /\ fbIdx[c] = 0
        /\ providerName[c] = "gamma" /\ DefaultProvider = "alpha"
        /\ Last(trace[c]).b = "gamma"

\* C25: SetDefault(name) sets the default backend and returns no error when
\* name is in the user or the system registry; otherwise it returns an error
\* and leaves the default backend as it was.
C25_SetDefaultChecksRegistries ==
    registrar.kind = "default" =>
        /\ registrar.pc = "writing" => ~Absent(registrar.nm) /\ registrar.ret = NoErr
        /\ (registrar.pc = "writing" /\ ~registrar.landed) => DefaultProvider = registrar.old
        /\ registrar.pc = "idle" =>
              IF Absent(registrar.nm)
              THEN /\ registrar.ret = DefaultNotRegisteredErr
                   /\ DefaultProvider = registrar.old
              ELSE /\ registrar.ret = NoErr
                   /\ DefaultProvider = registrar.nm

\* SetDefault("zeta") failed and alpha, set before, is still the default.
C25_Witness ==
    /\ registrar.kind = "default" /\ registrar.pc = "idle"
    /\ registrar.nm = "zeta" /\ registrar.ret # NoErr
    /\ DefaultProvider = "alpha" /\ registrar.old = "alpha"

\* C26: every backend that is invoked, the primary or a fallback candidate,
\* is handed the caller's request, so that the fields the caller left unset
\* are filled from that backend's own configuration: the max tokens it ends
\* up with are those it would derive from the caller's request, and a
\* candidate with a non-zero default max tokens is never handed the 200
\* filled in for the primary.
C26_DefaultsFromOwnConfig ==
    \A c \in AllCallers : \A j \in DOMAIN trace[c] :
        LET cfg == LookupProvider(trace[c][j].b).cfg
        IN /\ ProviderMaxTokens(cfg, trace[c][j].req) = ProviderMaxTokens(cfg, req0[c])
           /\ (req0[c].MaxTokens = 0 /\ cfg.DefaultMaxTokens # 0)
                 => trace[c][j].req.MaxTokens # FallbackMaxTokens

\* The s-th fallback name of the call of c is a registered backend other than
\* the primary.
Candidate(c, s) == fbList[c][s] # name[c] /\ ~Absent(fbList[c][s])

\* No model can be resolved for the s-th fallback name.
Unresolvable(c, s) ==
    LookupProvider(fbList[c][s]).cfg.DefaultModel = NoModel /\ req0[c].Model = NoModel

\* C27: a fallback candidate for which no model can be resolved (request
\* model empty, candidate's default model empty) is passed over: it is never
\* invoked and gets no metrics record, and the chain goes on with the next
\* candidate.
C27_UnresolvableCandidateSkipped ==
    \A c \in AllCallers : \A s \in DOMAIN fbList[c] :
        (Candidate(c, s) /\ Unresolvable(c, s))
        => /\ SlotCount(c, s) = 0
           /\ NameCount(c, fbList[c][s]) = 0
           /\ invoked[fbList[c][s]] = 0
           /\ fbList[c][s] \notin DOMAIN metrics
           /\ (/\ s + 1 \in DOMAIN fbList[c]
               /\ Candidate(c, s + 1) /\ ~Unresolvable(c, s + 1)
               /\ RunOver(c, s + 1))
              => SlotCount(c, s + 1) >= 1

\* beta, first in the list and without a model, was passed over and gamma,
\* second in the list, answered.
C27_Witness ==
    \E c \in AllCallers :
        /\ pc[c] = "done" /\ Succeeded(c)
        /\ Len(fbList[c]) = 2 /\ Candidate(c, 1) /\ Unresolvable(c, 1)
        /\ Last(trace[c]).slot = 2
        /\ fbList[c][1] \notin DOMAIN metrics

\* C28: registry state is accessed under synchronization: no registration
\* call or SetDefault call is in the middle of writing a registry map, the
\* fallback list or the default name while the next step of a Complete call
\* reads it.
C28_RegistryAccessSynchronized ==
    \A c \in AllCallers : ~ReadsWritten(c)

\* The two callers ran concurrently with the same lookup key, both missed the
\* cache, and both got an error-free first element from a backend.
BothMissed ==
    /\ \A c \in AllCallers :
          /\ pc[c] = "done" /\ lookupKey[c].computed
          /\ Succeeded(c) /\ resp[c].ok /\ resp[c].v.Err = NoErr
    /\ lookupKey["c1"].key = lookupKey["c2"].key

\* Every access to the cache map is made with the cache lock held, a writer
\* excludes everybody else, and no caller is stuck.
CacheLockDiscipline ==
    /\ cacheLock.w # "none" => cacheLock.r = {}
    /\ \A c \in AllCallers :
          /\ pc[c] = "cache_read" <=> c \in cacheLock.r
          /\ pc[c] = "store_write" <=> cacheLock.w = c
          /\ pc[c] # "blocked"

\* C29: two concurrent Complete calls with the same cache key that both miss
\* each invoke a backend and each write the entry; afterwards the cache holds
\* exactly one entry for the key, equal to one of the two written values;
\* every cache map access happened with the lock held and neither call is
\* stuck.
C29_LastWriteWins ==
    /\ CacheLockDiscipline
    /\ BothMissed =>
          LET k == lookupKey["c1"].key
          IN /\ \A c \in AllCallers : stored[c].done /\ stored[c].key = k
             /\ DOMAIN cache = {k}
             /\ cache[k].content \in {stored[c].content : c \in AllCallers}

\* The sweeper makes its pass over the map.
SweepStep == sweeper.pc = "pass" /\ sweeper'.pc = "wait"

C30_SweepPass ==
    /\ SweepStep =>
          \A k \in DOMAIN cache :
              /\ cache[k].expiresAt < sweeper.now => k \notin DOMAIN cache'
              /\ k \notin DOMAIN cache' => cache[k].expiresAt <= now
              /\ k \in DOMAIN cache' => cache'[k] = cache[k]
    /\ \A c \in AllCallers :
          (/\ LookupStep(c)
           /\ lookupKey[c].key \in DOMAIN cache
           /\ cache[lookupKey[c].key].expiresAt <= now)
          => pc'[c] = "resolve" /\ result'[c] = NoResult

NextLive ==
    \/ \E r \in ConcRequests : Call("c1", "alpha", r, 2)
    \/ Step("c1", {"one", "error"}, {MaxLatency})
    \/ Tick
    \/ SweepTick
    \/ SweepLock
    \/ SweepPass

\* sync.RWMutex hands the lock to a goroutine blocked in Lock or RLock once
\* it is released (a blocked writer bars new readers, the mutex's starvation
\* mode bars barging), so an acquisition that is enabled again and again
\* eventually happens; a holder of the lock runs until it unlocks.
FairLive ==
    /\ WF_vars(SweepPass)
    /\ SF_vars(SweepLock)
    /\ \A c \in AllCallers :
          /\ SF_vars(CacheLookup(c))
          /\ WF_vars(CacheRead(c))
          /\ SF_vars(StoreLock(c))
          /\ WF_vars(StoreWrite(c))

SpecLive == InitRace /\ [][NextLive]_vars /\ FairLive

\* C31: the sweeper holds the cache lock for one pass and releases it, and a
\* Complete call waiting for the lock, to read at the lookup or to write at
\* the store, eventually acquires it.
C31_SweepDoesNotStarve ==
    /\ (cacheLock.w = "sweeper") ~> (cacheLock.w # "sweeper")
    /\ \A c \in AllCallers :
          /\ (pc[c] = "store_lock") ~> (cacheLock.w = c)
          /\ (pc[c] = "lookup") ~> (pc[c] # "lookup")

\* A call, the second of its caller, waits to write while the sweeper holds
\* the lock.
C31_Witness ==
    /\ cacheLock.w = "sweeper"
    /\ \E c \in AllCallers : pc[c] = "store_lock" /\ prev[c].valid

(***************************************************************************)
(* Requests whose cache key cannot be computed: one caller, two calls, the *)
(* temperature of a request may be NaN, which json.Marshal rejects.        *)
(***************************************************************************)
InitNaN ==
    /\ InitAgent
    /\ InitCalls
    /\ CacheTTL = 1
    /\ \E t \in {0, 100} :
          userProviders = [x \in {"alpha"} |-> Provider("alpha", "user", ProviderConfig("m", t, 0))]
    /\ systemProviders = [x \in {"gamma"} |-> GammaProvider]
    /\ DefaultProvider = "alpha"
    /\ FallbackProviders = <<"gamma">>

NextNaN ==
    \/ \E s \in {"nil", "false"}, tp \in {"0", "NaN"} :
          Call("c1", NoName, CompletionRequest(Msgs, NoModel, s, tp, 0, "0", <<>>), 2)
    \/ Step("c1", {"one", "empty", "inband", "error"}, {MaxLatency})

SpecNaN == InitNaN /\ [][NextNaN]_vars

\* The key of the caller-supplied request of c cannot be computed.
KeyFails(c) == req0[c].Temperature = "NaN" \/ req0[c].TopP = "NaN"

\* The request of c is non-streaming when the call reaches CACHE_STORE.
NonStreamingAtStore(c) ==
    \/ req[c].Stream = "false"
    \/ (req[c].Stream = "nil" /\ req[c].MaxTokens = 0)

\* C32: a failure to compute the cache key is non-fatal: the call takes no
\* cache lock, reads and writes no entry and never returns the key error; the
\* lookup is passed as on a miss, so the call resolves its backend and fails
\* only as a call that missed can fail; at the store the write is skipped and
\* the element drained from the backend's stream is returned in a one-element
\* stream without error.
C32_KeyFailureNonFatal ==
    \A c \in AllCallers :
        (calls[c] > 0 /\ KeyFails(c))
        => /\ ~lookupKey[c].computed
           /\ pc[c] \notin {"cache_read", "store_lock", "store_write"}
           /\ c \notin cacheLock.r /\ cacheLock.w # c
           /\ ~stored[c].done
           /\ (prev[c].valid /\ prev[c].stored.done)
                 => cache = [k \in {prev[c].stored.key} |->
                                cacheEntry(prev[c].stored.content, prev[c].stored.at + CacheTTL)]
           /\ (~prev[c].valid \/ ~prev[c].stored.done) => cache = EmptyMap
           /\ (pc[c] = "done" /\ ~Succeeded(c))
                 => result[c].chan.nil /\ result[c].err.kind = "all providers failed"
           /\ (pc[c] = "done" /\ Succeeded(c) /\ NonStreamingAtStore(c))
                 => /\ resp[c] = Receive(Last(trace[c]).chan)
                    /\ result[c] = [chan |-> Chan(<<resp[c].v>>), err |-> NoErr]

\* A call whose key cannot be computed drained an error-free element and
\* returned it, while the cache still holds only the previous call's entry.
C32_Witness ==
    \E c \in AllCallers :
        /\ pc[c] = "done" /\ KeyFails(c) /\ req0[c].Stream = "false"
        /\ Succeeded(c) /\ resp[c].ok /\ resp[c].v.Err = NoErr
        /\ result[c].chan.elems = <<resp[c].v>>
        /\ prev[c].stored.done /\ DOMAIN cache = {prev[c].stored.key}

\* C33: every Complete call eventually returns when every invocation returns
\* and every returned stream delivers an element or is closed: no call waits
\* in a receive on a stream it did not obtain from a successful attempt (the
\* nil channel, on which a receive never completes).
C33_NeverBlocksOnNilStream ==
    \A c \in AllCallers :
        /\ pc[c] # "blocked"
        /\ (pc[c] = "cache_store" /\ ~Succeeded(c)) => StreamValue(req[c])

\* The invocation returned no error and a stream whose first element carries
\* an error.
InBand(e) == e.ok /\ e.chan.elems # <<>> /\ Head(e.chan.elems).Err # NoErr

\* The invocations of the current tryProvider run of c that returned an error.
FailedInRun(c) == {j \in DOMAIN trace[c] : trace[c][j].slot = fbIdx[c] /\ ~trace[c][j].ok}

\* An in-band failure is the last invocation of its call, and the loop index
\* of tryProvider counts exactly the invocations that returned an error.
C34_InBandEndsTheCall ==
    \A c \in AllCallers :
        /\ \A j \in DOMAIN trace[c] :
              InBand(trace[c][j])
              => /\ j = Len(trace[c])
                 /\ fbIdx[c] = trace[c][j].slot
                 /\ pc[c] \in {"record", "after_try", "cache_store", "done"}
        /\ pc[c] = "invoke" => i[c] = Cardinality(FailedInRun(c))
        /\ pc[c] = "record" => i[c] = Cardinality(FailedInRun(c) \ {Len(trace[c])})

\* The metrics update after an in-band failure.
C34_RecordStep ==
    \A c \in AllCallers :
        (pc[c] = "record" /\ pc'[c] # "record" /\ InBand(Last(trace[c])))
        => LET b == Last(trace[c]).b
           IN /\ metrics'[b].SuccessCount = metrics[b].SuccessCount + 1
              /\ metrics'[b].FailureCount = metrics[b].FailureCount
              /\ pc'[c] = "after_try"
              /\ i'[c] = i[c]
              /\ respChan'[c] = Last(trace[c]).chan

\* C34: a failure delivered in-band (the invocation returns no error, the
\* first element of its stream carries one) is counted as a success in the
\* backend's metrics and is followed by no retry and no fallback attempt;
\* only an invocation that returns an error advances the retry loop.
C34_InBandFailureIsSuccess == [](C34_InBandEndsTheCall) /\ [][C34_RecordStep]_vars

\* A call returned after one invocation with an in-band failure although its
\* backend had retries left and a fallback list was configured.
C34_Witness ==
    \E c \in AllCallers :
        /\ pc[c] = "done" /\ Len(trace[c]) = 1 /\ InBand(Last(trace[c]))
        /\ Last(trace[c]).retry > 0 /\ Len(FallbackProviders) > 0
        /\ metrics[Last(trace[c]).b] = ProviderMetrics(1, 0, metrics[Last(trace[c]).b].TotalLatency)
        /\ result[c].err = NoErr
        /\ result[c].chan.elems = <<Head(Last(trace[c]).chan.elems)>>

\* C35: when the stream a backend returned for a non-streaming request is
\* closed without an element, Complete returns no error and a one-element
\* stream whose element has empty content and no error, and writes no cache
\* entry.
C35_EmptyStreamYieldsZeroElement ==
    \A c \in AllCallers :
        (/\ pc[c] = "done" /\ CallerNonStreaming(c) /\ Succeeded(c)
         /\ Last(trace[c]).chan.elems = <<>>)
        => /\ result[c] = [chan |-> Chan(<<CompletionResponse(NoContent, NoErr)>>), err |-> NoErr]
           /\ ~stored[c].done
           /\ cache = EmptyMap

\* C36: a Complete call that returns an error leaves the cache unchanged, and
\* a Complete call that returns without error returns a non-nil stream.
C36_ErrorOrStream ==
    \A c \in AllCallers :
        pc[c] = "done"
        => /\ result[c].err # NoErr => (~stored[c].done /\ cache = EmptyMap)
           /\ result[c].err = NoErr => ~result[c].chan.nil

(***************************************************************************)
(* One exchange of a backend adapter, for every configuration and request. *)
(***************************************************************************)
\* The agent is constructed and not used.
InitAgentUnused ==
    /\ cache = EmptyMap
    /\ cacheLock = [w |-> "none", r |-> {}]
    /\ metrics = EmptyMap
    /\ now = 0
    /\ sweeper = [pc |-> "wait", now |-> 0]
    /\ registrar = NoRegistrar
    /\ CacheTTL = 1
    /\ userProviders = EmptyMap
    /\ systemProviders = EmptyMap
    /\ DefaultProvider = NoName
    /\ FallbackProviders = <<>>

AdapterConfigs ==
    {AdapterConfig(kind, apiKey, "m", stream, maxTok) :
        kind \in {"openai", "claude", "sonnet"}, apiKey \in {"", "key"}, stream \in StreamFlags, maxTok \in {0, 100}}

InitAdapter ==
    /\ InitAgentUnused
    /\ InitCalls
    /\ vault = NoVault
    /\ \E cfg \in AdapterConfigs : adapter = [NoAdapter EXCEPT !.cfg = cfg]

NextAdapter ==
    \/ \E r \in Requests : AdapterComplete(r)
    \/ AdapterPayload
    \/ \E reply \in AdapterReplies : AdapterExchange(reply)

SpecAdapter == InitAdapter /\ [][NextAdapter]_vars

\* C37: an adapter invoked with a request whose stream flag is unset, on a
\* backend that declares no default stream, builds its payload without a
\* crash, with the stream flag treated as unset (not streaming), and
\* completes the exchange: the stream is fed and closed.
C37_UnsetStreamCompletes ==
    (/\ adapter.pc \notin {"idle", "returned"}
     /\ adapter.req0.Stream = "nil" /\ adapter.cfg.DefaultStream = "nil")
    => /\ adapter.pc # "panic"
       /\ adapter.payload.built => ~adapter.payload.stream
       /\ adapter.closed => adapter.pc = "closed"

(***************************************************************************)
(* ListProviders, on the registries the configuration calls have built.    *)
(***************************************************************************)
\* The orders in which a range loop may visit the keys of a map.
RangeOrders(S) ==
    {s \in [1..Cardinality(S) -> S] : \A a, b \in 1..Cardinality(S) : a # b => s[a] # s[b]}

\* A listing that appends every system name.
ProviderLists_NoDedup ==
    {u \o s : u \in RangeOrders(DOMAIN userProviders), s \in RangeOrders(DOMAIN systemProviders)}

\* The lists ListProviders may return: the user names, then the system names
\* the user registry does not have.
ProviderLists ==
    {u \o s : u \in RangeOrders(DOMAIN userProviders),
              s \in RangeOrders(DOMAIN systemProviders \ DOMAIN userProviders)}

ListProviders ==
    /\ registrar.pc = "idle"
    /\ \E list \in ProviderLists :
          registrar' = [NoRegistrar EXCEPT !.kind = "list", !.names = list]
    /\ UNCHANGED <<DefaultProvider, FallbackProviders, userProviders, systemProviders,
                   cache, cacheLock, CacheTTL, metrics, now, sweeper>>
    /\ UNCHANGED <<callVars, histVars, compVars>>

NextList ==
    \/ \E pv \in RegUserProviders : RegisterProvidersFromUser(pv)
    \/ \E pv \in RegSystemProviders : RegisterProvidersFromSystem(pv)
    \/ \E nm \in RegNames : SetDefault(nm)
    \/ \E names \in RegFallbackLists : RegisterFallbackProviders(names)
    \/ RegistryWrite
    \/ RegistryReturn
    \/ ListProviders

SpecList == InitReg /\ [][NextList]_vars

\* The number of times nm occurs in the list.
Occurrences(list, nm) == Cardinality({j \in DOMAIN list : list[j] = nm})

\* C38: ListProviders returns every name registered in either registry
\* exactly once, a name in both registries included, and no other name.
C38_ListsEachNameOnce ==
    registrar.kind = "list"
    => /\ \A nm \in RegNames :
             Occurrences(registrar.names, nm) =
                IF nm \in DOMAIN userProviders \/ nm \in DOMAIN systemProviders THEN 1 ELSE 0
       /\ \A j \in DOMAIN registrar.names : registrar.names[j] \in RegNames

\* alpha is in both registries, gamma in the system registry, and the list
\* has two names.
C38_Witness ==
    /\ registrar.kind = "list"
    /\ "alpha" \in DOMAIN userProviders /\ "alpha" \in DOMAIN systemProviders
    /\ "gamma" \in DOMAIN systemProviders
    /\ Len(registrar.names) = 2

(***************************************************************************)
(* The vault of examples/app.go: the main goroutine authenticates, then    *)
(* the CLI loop calls Set, Get and Delete.                                 *)
(***************************************************************************)
StoredSecrets == [k \in VaultKeys |-> "v1"]

InitLockout ==
    /\ InitAgentUnused
    /\ InitCalls
    /\ adapter = NoAdapter
    /\ vault \in {NewVault("lockout", NoFile), NewVault("lockout", VaultFile("pw", StoredSecrets))}

\* The CLI loop is the one client: the operations follow one another.
LockoutClients == {"cli"}

NextLockout ==
    \/ Execute
    \/ \E c \in LockoutClients, op \in VaultOps, k \in VaultKeys : VaultCall(c, op, k, "v2")
    \/ \E c \in LockoutClients : VaultLock(c)
    \/ \E c \in LockoutClients : AppPromptMaster(c)
    \/ \E c \in LockoutClients, pw1, pw2 \in Passwords : SetupNewVault(c, pw1, pw2)
    \/ \E c \in LockoutClients, ans \in {"y", "n"} : AppAskReset(c, ans)
    \/ \E c \in LockoutClients, right \in BOOLEAN : AppResetCode(c, right)
    \/ \E c \in LockoutClients, new1, new2 \in Passwords : AppResetNewKey(c, new1, new2)
    \/ \E c \in LockoutClients, pw \in Passwords : AppEnterMasterKey(c, pw)
    \/ \E c \in LockoutClients : VaultBody(c)
    \/ \E d \in {AuthCacheDuration, BanDuration} : VaultTick(d)

SpecLockout == InitLockout /\ [][NextLockout]_vars

\* The steps of a permanently locked vault, the step that locks it, and the
\* return of an operation called on a locked vault.
C39_LockedStep ==
    /\ vault.lockedForever
       => /\ vault'.lockedForever
          /\ vault'.data = vault.data
          /\ vault'.file = vault.file
    /\ (~vault.lockedForever /\ vault'.lockedForever)
       => /\ vault.banSet /\ vault.time > vault.bannedUntil
          /\ vault'.normalAttempts >= MaxFailures
    /\ \A c \in VaultClients :
          (vault.cl[c].lockedAtStart /\ vault.cl[c].pc # "idle" /\ vault'.cl[c].pc = "idle")
          => /\ vault'.cl[c].ret = LockedErr
             /\ vault'.cl[c].out = NoSecret

\* An operation called on a locked vault gets no further than the check at
\* the head of promptMaster.
C39_LockedCallStopsAtCheck ==
    \A c \in VaultClients :
        vault.cl[c].lockedAtStart
        => /\ vault.lockedForever
           /\ vault.cl[c].pc \in {"lock", "auth", "idle"}
           /\ vault.cl[c].pc = "idle" => vault.cl[c].ret = LockedErr

\* C39: the permanent lock is absorbing: the flag, set by a failed master key
\* entry with three or more failures after a ban has run out, is never
\* cleared, the reset procedure is not reached again, and every Get, Set and
\* Delete called afterwards fails with the permanently-locked error and
\* leaves the map and the storage file as they were.
C39_LockoutIsAbsorbing == [](C39_LockedCallStopsAtCheck) /\ [][C39_LockedStep]_vars

\* A Set on the locked vault was refused and the stored secrets are intact.
C39_Witness ==
    \E c \in VaultClients :
        /\ vault.lockedForever /\ vault.cl[c].lockedAtStart
        /\ vault.cl[c].pc = "idle" /\ vault.cl[c].op = "set"
        /\ vault.cl[c].ret = LockedErr
        /\ vault.file = VaultFile("pw", StoredSecrets)

(***************************************************************************)
(* The vault of vault/vault.go: Execute authenticates under the mutex,     *)
(* then the CLI loop and an HTTP handler call Set, Get and Delete          *)
(* concurrently.  Time passes in steps longer than authCacheDuration.      *)
(***************************************************************************)
InitVault ==
    /\ InitAgentUnused
    /\ InitCalls
    /\ adapter = NoAdapter
    /\ vault \in {NewVault("plain", NoFile), NewVault("plain", VaultFile("pw", StoredSecrets))}

NextVault ==
    \/ Execute
    \/ \E c \in VaultClients, op \in VaultOps, k \in VaultKeys, v \in {"v1", "v2"} :
          VaultCall(c, op, k, v)
    \/ \E c \in VaultClients : VaultLock(c)
    \/ \E c \in VaultClients : PromptMaster(c)
    \/ \E c \in VaultClients, pw1, pw2 \in Passwords : SetupNewVault(c, pw1, pw2)
    \/ \E c \in VaultClients, pw \in Passwords : EnterMasterKey(c, pw)
    \/ \E c \in VaultClients : VaultBody(c)
    \/ VaultTick(BanDuration)

SpecVault == InitVault /\ [][NextVault]_vars

\* c is between Lock and Unlock: in promptMaster or in the body.
InCritical(c) == vault.cl[c].pc \in {"auth", "setup", "enter", "body"}

\* The part of the vault the operations share.
VaultShared(v) ==
    <<v.data, v.file, v.cipherKey, v.authed, v.authedAt>>

\* The client that is inside an operation has a step to take.
CanStep(c) ==
    \/ ENABLED PromptMaster(c)
    \/ ENABLED VaultBody(c)
    \/ \E pw \in Passwords : ENABLED EnterMasterKey(c, pw)
    \/ \E pw \in Passwords : ENABLED SetupNewVault(c, pw, pw)

\* At most one operation is between Lock and Unlock, it holds the mutex, the
\* mutex is held by nobody else, and a client waiting in Lock is waiting for
\* a holder that can go on, or can take the mutex itself.
C40_MutexHeld ==
    /\ \A c \in VaultClients : InCritical(c) => vault.mu = c
    /\ \A c, d \in VaultClients : (InCritical(c) /\ InCritical(d)) => c = d
    /\ vault.mu # "none" => (vault.mu \in VaultClients /\ InCritical(vault.mu) /\ CanStep(vault.mu))
    /\ \A c \in VaultClients :
          vault.cl[c].pc = "lock" => (ENABLED VaultLock(c) \/ vault.mu \in VaultClients \ {c})

\* Only the holder of the mutex authenticates, touches the map or writes the
\* storage file.
C40_SharedStep ==
    VaultShared(vault') # VaultShared(vault)
    => /\ vault.mu \in VaultClients
       /\ InCritical(vault.mu)
       /\ \A d \in VaultClients \ {vault.mu} : vault'.cl[d] = vault.cl[d]

\* C40: Set, Get and Delete are mutually exclusive under any interleaving of
\* the HTTP handler and the CLI loop: at most one of them at a time runs the
\* authentication, touches the map or writes the storage file, and none of
\* them deadlocks on the mutex.
C40_VaultOpsExclusive == [](C40_MutexHeld) /\ [][C40_SharedStep]_vars

\* The HTTP handler is inside Set, writing, while the CLI loop waits in Lock.
C40_Witness ==
    /\ vault.mu = "rest" /\ vault.cl["rest"].pc = "body" /\ vault.cl["rest"].op = "set"
    /\ vault.cl["cli"].pc = "lock"

====
